---- MODULE Spec2Model ----
(***************************************************************************)
(* A model of Pocket ReadLex's dictionary compiler and runtime:            *)
(*   - the bit stream (bit_writer.rs, bit_reader.rs),                      *)
(*   - the trie builder (trie_builder.rs),                                 *)
(*   - the dictionary reader (dictionary.rs),                              *)
(*   - the transliterator (transliteration.rs),                            *)
(*   - the prefix search (jni_wrapper/dictionary.rs),                      *)
(*   - the compiler's main (compiledb.rs).                                 *)
(* Bytes are integers 0..255.  A u32 is a tuple of 32 bits, least          *)
(* significant first, so that every value of the type is representable.    *)
(* Characters are Unicode code points; a string is a tuple of them.        *)
(***************************************************************************)
EXTENDS Integers, Sequences, FiniteSets, TLC

VARIABLES
    \* ---- build profile (Cargo: dev/test profiles check arithmetic overflow)
    overflow_checks,
    \* ---- bit stream
    writer,        \* the BitWriter: queue, queue_length, output, panicked
    writes,        \* the add_bits calls made so far: <<[bits, n_bits], ...>>
    bitPhase,      \* "write" | "read"
    reader,        \* the BitReader: slice, queue, queue_length, bytes_consumed
    reads,         \* the results of the read_bits calls made so far
    \* ---- trie builder and dictionary reader
    nodes,         \* TrieBuilder.nodes
    calls,         \* the add_word calls made so far, in order
    dictionary,    \* the output of into_dictionary, once it has run
    query,         \* the reader call last made on the dictionary, its result
    \* ---- transliterator
    pair_priorities,  \* the POS pair table the program was built with
    tr,            \* the Transliterater: dictionary, input, output, buf, last_pos
    resolved,      \* the words resolved so far, each with the context it met
    \* ---- prefix search (jni_wrapper/dictionary.rs)
    finder,        \* the Finder: dictionary, prefix, results, the walker
    \* ---- the compiler's main (compiledb.rs)
    build,         \* a run of CompileDb: the input, the options, the exit code
    \* ---- node headers (trie_builder.rs write_offset, dictionary.rs)
    header         \* a header number: its size, its bytes, the bytes parsed

bitVars == <<writer, writes, bitPhase, reader, reads>>

trieVars == <<nodes, calls, dictionary, query>>

transVars == <<pair_priorities, tr, resolved>>

searchVars == <<finder>>

buildVars == <<build>>

headerVars == <<header>>

vars ==
    <<overflow_checks, bitVars, trieVars, transVars, searchVars, buildVars,
      headerVars>>

(***************************************************************************)
(* Bounds of the model.                                                    *)
(***************************************************************************)
MaxWrites == 2

\* the most add_word calls before into_dictionary
MaxWords == 2

\* the length of the long word
LongLen == 13

\* the most characters of an input text
MaxInput == 4

(***************************************************************************)
(* Fixed-width integer arithmetic.                                         *)
(***************************************************************************)
Min(a, b) == IF a < b THEN a ELSE b

Max(a, b) == IF a > b THEN a ELSE b

\* u8 as its 8 bits, least significant first
U8Bits(x) == [i \in 1..8 |-> (x \div (2 ^ (i - 1))) % 2]

U8FromBits(b) ==
    b[1] + 2 * b[2] + 4 * b[3] + 8 * b[4]
        + 16 * b[5] + 32 * b[6] + 64 * b[7] + 128 * b[8]

\* a | b on u8
U8Or(a, b) ==
    U8FromBits([i \in 1..8 |->
        IF U8Bits(a)[i] = 1 \/ U8Bits(b)[i] = 1 THEN 1 ELSE 0])

\* a & b on u8
U8And(a, b) ==
    U8FromBits([i \in 1..8 |->
        IF U8Bits(a)[i] = 1 /\ U8Bits(b)[i] = 1 THEN 1 ELSE 0])

\* (a << k) on u8 for k < 8: the bits shifted out are lost
U8Shl(a, k) == (a * (2 ^ k)) % 256

\* (a >> k) on u8 for k < 8
U8Shr(a, k) == a \div (2 ^ k)

U32Zero == [i \in 1..32 |-> 0]

\* n as u32, for 0 <= n < 2^31
U32FromNat(n) ==
    [i \in 1..32 |-> IF i <= 31 THEN (n \div (2 ^ (i - 1))) % 2 ELSE 0]

\* u32::from_le_bytes
U32FromLeBytes(b) ==
    [i \in 1..32 |-> (b[((i - 1) \div 8) + 1] \div (2 ^ ((i - 1) % 8))) % 2]

\* x.to_le_bytes()
U32ToLeBytes(x) ==
    [k \in 1..4 |-> U8FromBits([i \in 1..8 |-> x[8 * (k - 1) + i]])]

\* x as u8
U32AsU8(x) == U8FromBits([i \in 1..8 |-> x[i]])

\* x as usize, for x < 2^31
U32AsNat(x) ==
    LET RECURSIVE Sum(_)
        Sum(i) == IF i > 31 THEN 0 ELSE x[i] * (2 ^ (i - 1)) + Sum(i + 1)
    IN Sum(1)

\* x >> k for k < 32
U32Shr(x, k) == [i \in 1..32 |-> IF i + k <= 32 THEN x[i + k] ELSE 0]

\* x << k for k < 32: the bits shifted out are lost
U32Shl(x, k) == [i \in 1..32 |-> IF i - k >= 1 THEN x[i - k] ELSE 0]

U32Or(x, y) == [i \in 1..32 |-> IF x[i] = 1 \/ y[i] = 1 THEN 1 ELSE 0]

U32And(x, y) == [i \in 1..32 |-> IF x[i] = 1 /\ y[i] = 1 THEN 1 ELSE 0]

\* the low n bits of x
U32Low(x, n) == [i \in 1..32 |-> IF i <= n THEN x[i] ELSE 0]

(***************************************************************************)
(* BitWriter (bit_writer.rs).  The output is the Vec<u8> written so far.   *)
(* panicked records an arithmetic-overflow panic of a checked build.       *)
(***************************************************************************)
BitWriterNew(output) ==
    [queue |-> 0, queue_length |-> 0, output |-> output, panicked |-> FALSE]

\* bits >>= n_bytes * 8 followed by the stores into queue_length and queue
\* (lines 70-74).  A shift of a u32 by 32 overflows: a build with overflow
\* checks panics there, a build without them masks the amount to 0.
AddBitsTail(w, bits, n_bits, n_bytes, checks) ==
    LET left == n_bits - n_bytes * 8
        amount == n_bytes * 8
    IN  IF amount >= 32 /\ checks
        THEN [w EXCEPT !.panicked = TRUE]
        ELSE LET shifted == U32Shr(bits, amount % 32)
             IN  [w EXCEPT !.queue_length = left,
                           !.queue = U8And(U32AsU8(shifted), (2 ^ left) - 1)]

add_bits(w, bits, n_bits, checks) ==
    IF n_bits <= 0 THEN w
    ELSE
    LET align_bits == 8 - w.queue_length IN
    IF w.queue_length > 0 /\ align_bits > n_bits
    THEN [w EXCEPT
            !.queue = U8Or(w.queue, U32AsU8(U32Shl(bits, w.queue_length))),
            !.queue_length = w.queue_length + n_bits]
    ELSE
    LET aligning == w.queue_length > 0
        w1 == IF aligning
              THEN [w EXCEPT !.output = Append(w.output,
                       U8Or(w.queue,
                            U8Shl(U8And(U32AsU8(bits), (2 ^ align_bits) - 1),
                                  w.queue_length)))]
              ELSE w
        n1 == IF aligning THEN n_bits - align_bits ELSE n_bits
        bits1 == IF aligning THEN U32Shr(bits, align_bits) ELSE bits
        n_bytes == n1 \div 8
        le == U32ToLeBytes(bits1)
        w2 == [w1 EXCEPT !.output = w1.output \o SubSeq(le, 1, n_bytes)]
    IN  AddBitsTail(w2, bits1, n1, n_bytes, checks)

done(w) ==
    IF w.queue_length > 0
    THEN [w EXCEPT !.output = Append(w.output, w.queue)]
    ELSE w

(***************************************************************************)
(* BitReader (bit_reader.rs).                                              *)
(***************************************************************************)
BitReaderNew(slice) ==
    [slice |-> slice, queue |-> 0, queue_length |-> 0, bytes_consumed |-> 0]

\* Option<u32>
NoBits == [some |-> FALSE, value |-> U32Zero]

SomeBits(v) == [some |-> TRUE, value |-> v]

\* read_byte: the byte, or none at the end of the slice (nothing consumed)
ReadByteOk(r) == r.bytes_consumed < Len(r.slice)

ReadByteValueFirst(r) == r.slice[1]

ReadByteValue(r) == r.slice[r.bytes_consumed + 1]

ReadByteNextKeep(r) == r

ReadByteNext(r) == [r EXCEPT !.bytes_consumed = r.bytes_consumed + 1]

\* the loop "while n_bits - got >= 8" (lines 51-54)
RECURSIVE ReadWholeBytes(_, _, _, _)
ReadWholeBytes(r, result, got, n_bits) ==
    IF n_bits - got >= 8
    THEN IF ReadByteOk(r)
         THEN ReadWholeBytes(
                  ReadByteNext(r),
                  U32Or(result, U32Shl(U32FromNat(ReadByteValue(r)), got)),
                  got + 8,
                  n_bits)
         ELSE [reader |-> r, result |-> result, got |-> got, eof |-> TRUE]
    ELSE [reader |-> r, result |-> result, got |-> got, eof |-> FALSE]

\* read_bits: [reader |-> the reader afterwards, value |-> Option<u32>]
read_bits(r, n_bits) ==
    LET got0 == Min(n_bits, r.queue_length)
        result0 == U32And(U32FromNat(r.queue),
                          U32Shr(U32FromNat(255), 8 - got0))
        r0 == [r EXCEPT !.queue = U8Shr(r.queue, got0),
                        !.queue_length = r.queue_length - got0]
        whole == ReadWholeBytes(r0, result0, got0, n_bits)
        r1 == whole.reader
        remainder == n_bits - whole.got
    IN  IF whole.eof THEN [reader |-> r1, value |-> NoBits]
        ELSE IF remainder > 0
        THEN IF ReadByteOk(r1)
             THEN LET byte == ReadByteValue(r1)
                      ql == 8 - remainder
                      result == U32Or(whole.result,
                                    U32Shl(U32FromNat(U8And(byte, U8Shr(255, ql))),
                                           whole.got))
                  IN  [reader |-> [ReadByteNext(r1) EXCEPT
                                      !.queue_length = ql,
                                      !.queue = U8Shr(byte, remainder)],
                       value |-> SomeBits(result)]
             ELSE [reader |-> r1, value |-> NoBits]
        ELSE [reader |-> r1, value |-> SomeBits(whole.result)]

bytes_consumed(r) == r.bytes_consumed

(***************************************************************************)
(* Characters and UTF-8 (char::len_utf8, char::encode_utf8).               *)
(***************************************************************************)
len_utf8(ch) ==
    IF ch < 128 THEN 1
    ELSE IF ch < 2048 THEN 2
    ELSE IF ch < 65536 THEN 3
    ELSE 4

encode_utf8(ch) ==
    IF ch < 128 THEN <<ch>>
    ELSE IF ch < 2048
    THEN <<192 + (ch \div 64), 128 + (ch % 64)>>
    ELSE IF ch < 65536
    THEN <<224 + (ch \div 4096), 128 + ((ch \div 64) % 64), 128 + (ch % 64)>>
    ELSE <<240 + (ch \div 262144), 128 + ((ch \div 4096) % 64),
           128 + ((ch \div 64) % 64), 128 + (ch % 64)>>

\* u32::BITS - x.leading_zeros(): the number of bits needed to store x
BitLength(x) ==
    LET RECURSIVE Count(_)
        Count(v) == IF v = 0 THEN 0 ELSE 1 + Count(v \div 2)
    IN Count(x)

(***************************************************************************)
(* TrieBuilder (trie_builder.rs).  nodes is the Vec<Node>; node i of the   *)
(* code is nodes[i + 1].  A child or sibling link is the index of the      *)
(* node, 0 standing for None (the root, index 0, is never a child).        *)
(* A terminator has ch = 0 and term = TRUE.                                *)
(***************************************************************************)
None == 0

CharData(ch) == [ch |-> ch, term |-> FALSE]

TerminatorData == [ch |-> 0, term |-> TRUE]

\* Node::new
NodeNew(data) ==
    [ch |-> data.ch, term |-> data.term,
     translations |-> <<>>, payload |-> <<>>,
     size |-> len_utf8(data.ch),
     first_child |-> None, next_sibling |-> None]

\* TrieBuilder::new: the root, with an ignored character '*'
TrieBuilderNew == <<NodeNew(CharData(42))>>

NodeAt(ns, i) == ns[i + 1]

\* the search of the child list for a character (lines 168-176)
RECURSIVE FindChild(_, _, _)
FindChild(ns, child, ch) ==
    IF child = None THEN None
    ELSE IF NodeAt(ns, child).ch = ch THEN child
    ELSE FindChild(ns, NodeAt(ns, child).next_sibling, ch)

\* a variant of PushTranslation that files the newest translation first
PushTranslationFirst(translations, t) == <<t>> \o translations

\* the translation pushed by an insertion at the end of the list
PushTranslation(translations, t) == Append(translations, t)

\* the loop of add_word_one_direction from item k of the word, where item
\* Len(word) + 1 is the terminator
RECURSIVE AddWordFrom(_, _, _, _, _, _)
AddWordFrom(ns, node, word, k, translation, payload_byte) ==
    IF k > Len(word) + 1 THEN ns
    ELSE
    LET data == IF k <= Len(word) THEN CharData(word[k]) ELSE TerminatorData
        found == FindChild(ns, NodeAt(ns, node).first_child, data.ch)
        new_node_pos == Len(ns)
        new_node == [NodeNew(data) EXCEPT
                        !.next_sibling = NodeAt(ns, node).first_child]
        ns1 == IF found # None THEN ns
               ELSE Append([ns EXCEPT ![node + 1].first_child = new_node_pos],
                           new_node)
        next == IF found # None THEN found ELSE new_node_pos
    IN  IF NodeAt(ns1, next).term
        THEN [ns1 EXCEPT ![next + 1].translations =
                 PushTranslation(@, [payload_byte |-> payload_byte,
                                     value |-> translation])]
        ELSE AddWordFrom(ns1, next, word, k + 1, translation, payload_byte)

add_word_one_direction(ns, word, translation, payload_byte) ==
    AddWordFrom(ns, 0, word, 1, translation, payload_byte)

add_word(ns, word, translation, payload_byte) ==
    add_word_one_direction(
        add_word_one_direction(ns, word, translation, payload_byte),
        translation, word, payload_byte)

\* the indices of the children of a node, in list order (lines 231-237)
RECURSIVE ChildList(_, _)
ChildList(ns, child) ==
    IF child = None THEN <<>>
    ELSE <<child>> \o ChildList(ns, NodeAt(ns, child).next_sibling)

\* sort_by_key on the character: a stable sort
RECURSIVE InsertByChar(_, _, _)
InsertByChar(ns, sorted, c) ==
    IF sorted = <<>> THEN <<c>>
    ELSE IF NodeAt(ns, Head(sorted)).ch <= NodeAt(ns, c).ch
    THEN <<Head(sorted)>> \o InsertByChar(ns, Tail(sorted), c)
    ELSE <<c>> \o sorted

RECURSIVE SortByChar(_, _)
SortByChar(ns, list) ==
    IF list = <<>> THEN <<>>
    ELSE InsertByChar(ns, SortByChar(ns, SubSeq(list, 1, Len(list) - 1)),
                      list[Len(list)])

\* the relinking loop over the sorted children, last to first (247-252)
RECURSIVE Relink(_, _, _, _)
Relink(ns, parent, sorted, k) ==
    IF k = 0 THEN ns
    ELSE LET child == sorted[k]
             first_child == NodeAt(ns, parent).first_child
         IN  Relink([ns EXCEPT ![child + 1].next_sibling = first_child,
                               ![parent + 1].first_child = child],
                    parent, sorted, k - 1)

sort_children_by_character(ns, parent) ==
    LET child_indices == SortByChar(ns, ChildList(ns, NodeAt(ns, parent).first_child))
    IN  Relink([ns EXCEPT ![parent + 1].first_child = None],
               parent, child_indices, Len(child_indices))

RECURSIVE SortFrom(_, _)
SortFrom(ns, i) ==
    IF i >= Len(ns) THEN ns
    ELSE SortFrom(sort_children_by_character(ns, i), i + 1)

sort_all_children_by_character(ns) == SortFrom(ns, 0)

\* StackEntry::new
StackEntryNew(node) == [node |-> node, next_node |-> "FirstChild"]

\* next_node: [next |-> the node to visit or None, entry |-> the entry after]
RECURSIVE next_node(_, _)
next_node(ns, entry) ==
    IF entry.next_node = "Backtrack" THEN [next |-> None, entry |-> entry]
    ELSE
    LET cand == IF entry.next_node = "FirstChild"
                THEN NodeAt(ns, entry.node).first_child
                ELSE NodeAt(ns, entry.node).next_sibling
        entry1 == [entry EXCEPT !.next_node =
                      IF entry.next_node = "FirstChild"
                      THEN "NextSibling" ELSE "Backtrack"]
    IN  IF cand # None THEN [next |-> cand, entry |-> entry1]
        ELSE next_node(ns, entry1)

n_children(ns, parent) == Len(ChildList(ns, NodeAt(ns, parent).first_child))

\* the search loop of write_path (336-343): the child with the character
\* and the siblings skipped; unwrap() of a missing sibling panics
RECURSIVE SkipToChar(_, _, _, _)
SkipToChar(ns, node, ch, skips) ==
    IF node = None THEN [node |-> None, skips |-> skips]
    ELSE IF NodeAt(ns, node).ch = ch THEN [node |-> node, skips |-> skips]
    ELSE SkipToChar(ns, NodeAt(ns, node).next_sibling, ch, skips + 1)

\* write_path from item k of the word; item Len(word) + 1 is '\0'
RECURSIVE WritePathFrom(_, _, _, _, _, _)
WritePathFrom(ns, node, word, k, w, checks) ==
    IF k > Len(word) + 1 \/ w.panicked THEN w
    ELSE
    LET ch == IF k <= Len(word) THEN word[k] ELSE 0
        n == n_children(ns, node)
    IN  IF n = 0 THEN [w EXCEPT !.panicked = TRUE]
        ELSE
        LET n_bits == BitLength(n - 1)
            hit == SkipToChar(ns, NodeAt(ns, node).first_child, ch, 0)
        IN  IF hit.node = None THEN [w EXCEPT !.panicked = TRUE]
            ELSE WritePathFrom(ns, hit.node, word, k + 1,
                     add_bits(w, U32FromNat(hit.skips), n_bits, checks),
                     checks)

write_path(ns, word, w, checks) == WritePathFrom(ns, 0, word, 1, w, checks)

\* the framing byte of translation i of n (356-360)
FramingByte(payload_byte, i, n) ==
    IF i + 1 < n THEN U8Or(payload_byte, 128) ELSE payload_byte

\* calculate_payload, from translation i (0-based) on
RECURSIVE PayloadFrom(_, _, _, _, _)
PayloadFrom(ns, translations, i, payload, checks) ==
    IF i >= Len(translations) \/ payload.panicked THEN payload
    ELSE
    LET translation == translations[i + 1]
        bytes == Append(payload.bytes,
                        FramingByte(translation.payload_byte, i, Len(translations)))
        w == write_path(ns, translation.value, BitWriterNew(bytes), checks)
    IN  PayloadFrom(ns, translations, i + 1,
                    [bytes |-> done(w).output, panicked |-> w.panicked],
                    checks)

calculate_payload(ns, terminator, checks) ==
    PayloadFrom(ns, terminator.translations, 0,
                [bytes |-> <<>>, panicked |-> FALSE], checks)

\* a traversal pops each node's entry at most three times (to visit its
\* first child, to visit its next sibling and to backtrack)
TraversalSteps(ns) == 3 * Len(ns)

\* lines 380-388: the payload of a terminator stored in it
PayloadStored(b, node, pushed, p) ==
    [b EXCEPT !.nodes[node + 1].payload = p.bytes,
              !.panicked = p.panicked,
              !.stack = pushed]

\* lines 376-389, with next_node called on the entry popped
PayloadsVisit(b, rest, step) ==
    IF step.next = None THEN [b EXCEPT !.stack = rest]
    ELSE IF NodeAt(b.nodes, step.next).term
    THEN PayloadStored(b, step.next,
                       rest \o <<step.entry, StackEntryNew(step.next)>>,
                       calculate_payload(b.nodes, NodeAt(b.nodes, step.next),
                                         b.checks))
    ELSE [b EXCEPT !.stack = rest \o <<step.entry, StackEntryNew(step.next)>>]

\* one iteration of the loop of calculate_payloads (375-390)
PayloadsStep(b) ==
    IF b.stack = <<>> \/ b.panicked THEN b
    ELSE PayloadsVisit(b, SubSeq(b.stack, 1, Len(b.stack) - 1),
                       next_node(b.nodes, b.stack[Len(b.stack)]))

\* the loop run to its end: n iterations, where a finished loop stays as
\* it is and n is at least the number of iterations the loop makes
RECURSIVE PayloadsLoop(_, _)
RECURSIVE PayloadsLoopRest(_, _)
PayloadsLoopRest(y, n) ==
    IF y.stack = <<>> \/ y.panicked THEN y ELSE PayloadsLoop(y, n)

PayloadsLoop(x, n) ==
    IF n = 0 THEN x
    ELSE IF n = 1 THEN PayloadsStep(x)
    ELSE PayloadsLoopRest(PayloadsLoop(x, n \div 2), n - (n \div 2))

\* calculate_payloads: [nodes, panicked]
PayloadsDone(b) == [nodes |-> b.nodes, panicked |-> b.panicked]

calculate_payloads(ns, checks) ==
    PayloadsDone(PayloadsLoop([nodes |-> ns, panicked |-> FALSE,
                               stack |-> <<StackEntryNew(0)>>,
                               checks |-> checks],
                              TraversalSteps(ns)))

\* a variant of node_data_number whose sibling offset leaves out the bytes
\* of the node's own character
node_data_number_no_char(ns, index) ==
    2 * (IF NodeAt(ns, index).next_sibling # None
         THEN (IF NodeAt(ns, index).term
               THEN Len(NodeAt(ns, index).payload)
               ELSE NodeAt(ns, NodeAt(ns, index).first_child).size)
         ELSE 0)
      + (IF NodeAt(ns, index).first_child # None THEN 1 ELSE 0)

node_data_number(ns, index) ==
    LET node == NodeAt(ns, index)
        sibling_offset ==
            IF node.next_sibling # None
            THEN LET data_size ==
                         IF node.term THEN Len(node.payload)
                         ELSE NodeAt(ns, node.first_child).size
                 IN  len_utf8(node.ch) + data_size
            ELSE 0
        data_number == sibling_offset * 2
    IN  IF node.first_child # None THEN data_number + 1 ELSE data_number

n_bytes_for_size(size) ==
    LET n_bits == Max(BitLength(size), 1)
    IN  (n_bits + 6) \div 7

RECURSIVE write_offset(_)
write_offset(offset) ==
    IF offset \div 128 = 0 THEN <<offset % 128>>
    ELSE <<(offset % 128) + 128>> \o write_offset(offset \div 128)

\* one iteration of the loop of calculate_size (288-315)
SizeStep(x) ==
    IF x.stack = <<>> THEN x
    ELSE
    LET ns == x.nodes
        entry == x.stack[Len(x.stack)]
        rest == SubSeq(x.stack, 1, Len(x.stack) - 1)
        step == next_node(ns, entry)
    IN  IF step.next # None
        THEN [x EXCEPT !.stack = rest \o <<step.entry, StackEntryNew(step.next)>>]
        ELSE
        LET n == entry.node
            own == NodeAt(ns, n).size
                     + n_bytes_for_size(node_data_number(ns, n))
                     + (IF NodeAt(ns, n).term THEN Len(NodeAt(ns, n).payload) ELSE 0)
            ns1 == [ns EXCEPT ![n + 1].size = own]
            ns2 == IF rest # <<>>
                   THEN LET parent == rest[Len(rest)].node
                        IN  [ns1 EXCEPT ![parent + 1].size = @ + own]
                   ELSE ns1
        IN  [nodes |-> ns2, stack |-> rest]

\* the loop of calculate_size run to its end
RECURSIVE SizeLoop(_, _)
RECURSIVE SizeLoopRest(_, _)
SizeLoopRest(y, n) ==
    IF y.stack = <<>> THEN y ELSE SizeLoop(y, n)

SizeLoop(x, n) ==
    IF n = 0 THEN x
    ELSE IF n = 1 THEN SizeStep(x)
    ELSE SizeLoopRest(SizeLoop(x, n \div 2), n - (n \div 2))

calculate_size(ns) ==
    SizeLoop([nodes |-> ns, stack |-> <<StackEntryNew(0)>>],
           TraversalSteps(ns)).nodes

write_node(ns, index) ==
    LET node == NodeAt(ns, index)
    IN  write_offset(node_data_number(ns, index))
            \o encode_utf8(node.ch)
            \o (IF node.term THEN node.payload ELSE <<>>)

\* one iteration of the loop of write_nodes (479-489), over the bytes
\* written and, for each node, the offset at which write_node wrote it
WriteStep(x) ==
    IF x.stack = <<>> THEN x
    ELSE
    LET entry == x.stack[Len(x.stack)]
        rest == SubSeq(x.stack, 1, Len(x.stack) - 1)
        first == entry.next_node = "FirstChild"
        step == next_node(x.nodes, entry)
    IN  [x EXCEPT
           !.bytes = IF first THEN @ \o write_node(x.nodes, entry.node) ELSE @,
           !.at = IF first THEN [@ EXCEPT ![entry.node + 1] = Len(x.bytes)] ELSE @,
           !.stack = IF step.next # None
                     THEN rest \o <<step.entry, StackEntryNew(step.next)>>
                     ELSE rest]

\* the loop of write_nodes run to its end
RECURSIVE WriteLoop(_, _)
RECURSIVE WriteLoopRest(_, _)
WriteLoopRest(y, n) ==
    IF y.stack = <<>> THEN y ELSE WriteLoop(y, n)

WriteLoop(x, n) ==
    IF n = 0 THEN x
    ELSE IF n = 1 THEN WriteStep(x)
    ELSE WriteLoopRest(WriteLoop(x, n \div 2), n - (n \div 2))

WriteDone(x) == [bytes |-> x.bytes, at |-> x.at]

write_nodes(ns) ==
    WriteDone(WriteLoop([nodes |-> ns, stack |-> <<StackEntryNew(0)>>,
                         bytes |-> <<>>, at |-> [i \in 1..Len(ns) |-> 0]],
                        TraversalSteps(ns)))

\* into_dictionary: the builder after the three passes, the bytes written
\* to the output and where each node was written
IntoWritten(sized, out) ==
    [nodes |-> sized, bytes |-> out.bytes, at |-> out.at, panicked |-> FALSE]

IntoSized(sized) == IntoWritten(sized, write_nodes(sized))

IntoPaid(paid) ==
    IF paid.panicked
    THEN [nodes |-> paid.nodes, bytes |-> <<>>,
          at |-> [i \in 1..Len(paid.nodes) |-> 0], panicked |-> TRUE]
    ELSE IntoSized(calculate_size(paid.nodes))

into_dictionary(ns, checks) ==
    IntoPaid(calculate_payloads(sort_all_children_by_character(ns), checks))

(***************************************************************************)
(* The dictionary reader (dictionary.rs).  A result is a record whose tag  *)
(* is "Ok", one of the Error variants, or "Panic" (an out-of-range slice   *)
(* index aborts the program).                                              *)
(***************************************************************************)
UsizeBits == 64

Fail(tag) == [tag |-> tag]

\* Offsets are usize; every offset of 2^30 or more is past the end of any
\* buffer of the model and is kept as 2^30.
OffsetCap == 2 ^ 30

\* offset | (bits7 << shift), where the bits of offset lie below shift
UsizeOrShl(offset, bits7, shift) ==
    IF bits7 = 0 THEN offset
    ELSE IF shift > 21 \/ offset >= OffsetCap THEN OffsetCap
    ELSE offset + bits7 * (2 ^ shift)

\* &buf[from..]: defined for from <= buf.len()
SliceOk(buf, from) == from <= Len(buf)

SliceFrom(buf, from) == SubSeq(buf, from + 1, Len(buf))

RECURSIVE ReadOffsetLoop(_, _, _)
ReadOffsetLoop(buf, offset, len) ==
    IF len >= Len(buf) THEN Fail("UnexpectedEof")
    ELSE IF (len + 1) * 7 > UsizeBits THEN Fail("OffsetTooLong")
    ELSE LET byte == buf[len + 1]
             offset1 == UsizeOrShl(offset, byte % 128, len * 7)
         IN  IF byte < 128
             THEN [tag |-> "Ok", offset |-> offset1, len |-> len + 1]
             ELSE ReadOffsetLoop(buf, offset1, len + 1)

read_sibling_offset(buf) == ReadOffsetLoop(buf, 0, 0)

\* u8::leading_ones
leading_ones(byte) ==
    IF byte < 128 THEN 0
    ELSE IF byte < 192 THEN 1
    ELSE IF byte < 224 THEN 2
    ELSE IF byte < 240 THEN 3
    ELSE IF byte < 248 THEN 4
    ELSE IF byte < 252 THEN 5
    ELSE IF byte < 254 THEN 6
    ELSE IF byte < 255 THEN 7
    ELSE 8

IsContinuation(byte) == byte >= 128 /\ byte < 192

\* std::str::from_utf8 on a slice holding one encoded character: the
\* character, or -1 when the bytes are not valid UTF-8
from_utf8(d) ==
    IF Len(d) = 1 THEN (IF d[1] < 128 THEN d[1] ELSE -1)
    ELSE IF Len(d) > 4 \/ \E i \in 2..Len(d) : ~IsContinuation(d[i]) THEN -1
    ELSE LET ch == IF Len(d) = 2
                   THEN (d[1] - 192) * 64 + (d[2] - 128)
                   ELSE IF Len(d) = 3
                   THEN (d[1] - 224) * 4096 + (d[2] - 128) * 64 + (d[3] - 128)
                   ELSE (d[1] - 240) * 262144 + (d[2] - 128) * 4096
                            + (d[3] - 128) * 64 + (d[4] - 128)
         IN  IF \/ len_utf8(ch) # Len(d)
                \/ ch > 1114111
                \/ (ch >= 55296 /\ ch <= 57343)
             THEN -1 ELSE ch

read_character(buf) ==
    IF buf = <<>> THEN Fail("UnexpectedEof")
    ELSE LET utf8_len == Max(leading_ones(buf[1]), 1)
         IN  IF utf8_len > Len(buf) THEN Fail("UnexpectedEof")
             ELSE LET ch == from_utf8(SubSeq(buf, 1, utf8_len))
                  IN  IF ch < 0 THEN Fail("InvalidCharacter")
                      ELSE [tag |-> "Ok", ch |-> ch, utf8_len |-> utf8_len]

\* read_node once the header number is read, then once the character is
ReadNodeMake(so, c) ==
    IF c.tag # "Ok" THEN c
    ELSE [tag |-> "Ok",
          char_offset |-> so.len,
          data_offset |-> so.len + c.utf8_len,
          ch |-> c.ch,
          sibling_offset |-> so.offset]

ReadNodeChar(buf, so) ==
    IF so.tag # "Ok" THEN so
    ELSE ReadNodeMake(so, read_character(SliceFrom(buf, so.len)))

read_node(buf) == ReadNodeChar(buf, read_sibling_offset(buf))

\* the loop of count_siblings, and its body once the offset is read
RECURSIVE CountSiblingsLoop(_, _)
RECURSIVE CountSiblingsStep(_, _, _)
CountSiblingsStep(buf, count, so) ==
    IF so.tag # "Ok" THEN so
    ELSE IF so.offset = 0 THEN [tag |-> "Ok", count |-> count]
    ELSE IF ~SliceOk(buf, so.offset + so.len) THEN Fail("Panic")
    ELSE CountSiblingsLoop(SliceFrom(buf, so.offset + so.len), count + 1)

CountSiblingsLoop(buf, count) ==
    CountSiblingsStep(buf, count, read_sibling_offset(buf))

count_siblings(buf) == CountSiblingsLoop(buf, 1)

\* the loop of skip_nodes, and its body once the offset is read
RECURSIVE SkipNodesLoop(_, _, _)
RECURSIVE SkipNodesStep(_, _, _, _)
SkipNodesStep(buf, n_nodes, pos, so) ==
    IF so.tag # "Ok" THEN so
    ELSE SkipNodesLoop(buf, n_nodes - 1, pos + so.len + so.offset)

SkipNodesLoop(buf, n_nodes, pos) ==
    IF n_nodes = 0 THEN [tag |-> "Ok", pos |-> pos]
    ELSE IF ~SliceOk(buf, pos) THEN Fail("Panic")
    ELSE SkipNodesStep(buf, n_nodes, pos, read_sibling_offset(SliceFrom(buf, pos)))

skip_nodes(buf, n_nodes) == SkipNodesLoop(buf, n_nodes, 0)

\* PathWalker::new: the path starts at pos, the walk at the root's children
PathWalkerNew(buf, pos) ==
    [node_pos |-> 4, reader |-> BitReaderNew(SliceFrom(buf, pos)),
     found_end |-> FALSE]

\* PathWalker::next_char: [tag, walker |-> the walker afterwards,
\* some |-> whether a character was produced, ch]
NextCharFail(walker, tag) ==
    [tag |-> tag, walker |-> walker, some |-> FALSE, ch |-> 0]

\* lines 187-194, with the character read
NextCharRead(walker, so, c) ==
    IF c.tag # "Ok" THEN NextCharFail(walker, c.tag)
    ELSE IF c.ch = 0
    THEN [tag |-> "Ok", walker |-> [walker EXCEPT !.found_end = TRUE],
          some |-> FALSE, ch |-> 0]
    ELSE [tag |-> "Ok",
          walker |-> [walker EXCEPT !.node_pos = @ + so.len + c.utf8_len],
          some |-> TRUE, ch |-> c.ch]

\* lines 184-185, with the sibling offset of the child skipped
NextCharHeader(buf, walker, so) ==
    IF so.tag # "Ok" THEN NextCharFail(walker, so.tag)
    ELSE NextCharRead(walker, so,
                      read_character(SliceFrom(buf, walker.node_pos + so.len)))

\* lines 181-182, with the walker on the child
NextCharChild(buf, walker) ==
    IF ~SliceOk(buf, walker.node_pos) THEN NextCharFail(walker, "Panic")
    ELSE NextCharHeader(buf, walker,
                        read_sibling_offset(SliceFrom(buf, walker.node_pos)))

\* line 175, with the earlier siblings skipped
NextCharSkipped(buf, walker, skipped) ==
    IF skipped.tag # "Ok" THEN NextCharFail(walker, skipped.tag)
    ELSE NextCharChild(buf, [walker EXCEPT !.node_pos = @ + skipped.pos])

\* lines 165-178, with the child index read
NextCharIndexed(buf, walker, count, child_index) ==
    IF ~child_index.some THEN NextCharFail(walker, "UnexpectedEof")
    ELSE IF U32AsNat(child_index.value) >= count
    THEN NextCharFail(walker, "ChildIndexOutOfRange")
    ELSE NextCharSkipped(buf, walker,
                         skip_nodes(SliceFrom(buf, walker.node_pos),
                                    U32AsNat(child_index.value)))

\* the walker after read_bits, and the value read
NextCharBits(buf, walker, count, got) ==
    NextCharIndexed(buf, [walker EXCEPT !.reader = got.reader],
                    count, got.value)

\* line 163, with the children counted
NextCharCounted(buf, walker, n) ==
    IF n.tag # "Ok" THEN NextCharFail(walker, n.tag)
    ELSE NextCharBits(buf, walker, n.count,
                      read_bits(walker.reader, BitLength(n.count - 1)))

next_char(buf, walker) ==
    IF walker.found_end
    THEN [tag |-> "Ok", walker |-> walker, some |-> FALSE, ch |-> 0]
    ELSE IF ~SliceOk(buf, walker.node_pos) THEN NextCharFail(walker, "Panic")
    ELSE NextCharCounted(buf, walker,
                         count_siblings(SliceFrom(buf, walker.node_pos)))

\* the characters the walker yields until it ends or fails:
\* [tag, walker, chars]
RECURSIVE WalkPath(_, _, _)
RECURSIVE WalkPathStep(_, _, _)
WalkPathStep(buf, chars, step) ==
    IF step.tag # "Ok" \/ ~step.some
    THEN [tag |-> step.tag, walker |-> step.walker, chars |-> chars]
    ELSE WalkPath(buf, step.walker, Append(chars, step.ch))

WalkPath(buf, walker, chars) == WalkPathStep(buf, chars, next_char(buf, walker))

\* extract_variant
extract_variant(buf, pos) ==
    IF pos + 3 > Len(buf) THEN Fail("UnexpectedEof")
    ELSE [tag |-> "Ok",
          pos |-> pos,
          payload |-> buf[pos + 1] % 128,
          article_num |-> buf[pos + 2] + 256 * buf[pos + 3],
          is_last |-> buf[pos + 1] < 128,
          translation |-> PathWalkerNew(buf, pos + 3)]

\* line 230 with the walk of the rest of the path left out
NextOffsetAfterRead(variant, rest) ==
    IF rest.tag # "Ok" THEN [tag |-> rest.tag, some |-> FALSE, pos |-> 0]
    ELSE [tag |-> "Ok", some |-> TRUE,
          pos |-> variant.pos + bytes_consumed(variant.translation.reader) + 3]

\* line 230, with the rest of the path walked
NextOffsetAfter(variant, rest) ==
    IF rest.tag # "Ok" THEN [tag |-> rest.tag, some |-> FALSE, pos |-> 0]
    ELSE [tag |-> "Ok", some |-> TRUE,
          pos |-> variant.pos + bytes_consumed(rest.walker.reader) + 3]

\* Variant::into_next_offset: [tag, some, pos]
into_next_offset(buf, variant) ==
    IF variant.is_last THEN [tag |-> "Ok", some |-> FALSE, pos |-> 0]
    ELSE NextOffsetAfter(variant, WalkPath(buf, variant.translation, <<>>))

check_length(buf) ==
    IF Len(buf) < 4 THEN Fail("UnexpectedEof")
    ELSE IF U32FromLeBytes(SubSeq(buf, 1, 4)) # U32FromNat(Len(buf) - 4)
    THEN Fail("InvalidLengthHeader")
    ELSE [tag |-> "Ok"]

\* DictionaryWalker::start_from
DictionaryWalkerFrom(pos) ==
    [word |-> <<>>, stack |-> <<[word_length |-> 0, pos |-> pos]>>]

\* DictionaryWalker::new
DictionaryWalkerNew == DictionaryWalkerFrom(4)

WalkerResult(tag, walker, some, word, pos) ==
    [tag |-> tag, walker |-> walker, some |-> some, word |-> word, pos |-> pos]

\* DictionaryWalker::next: [tag, walker, some, word, pos]
RECURSIVE walker_next(_, _)
RECURSIVE WalkerNode(_, _, _, _)
RECURSIVE WalkerPopped(_, _, _)

\* lines 298-303: the stack with the entry of the next sibling pushed
WalkerSibling(entry, node, w1) ==
    IF node.sibling_offset > 0
    THEN Append(w1.stack,
                [word_length |-> Len(w1.word),
                 pos |-> entry.pos + node.char_offset + node.sibling_offset])
    ELSE w1.stack

\* lines 309-314: the character pushed on the word, the child on the stack
WalkerChild(entry, node, word, stack) ==
    [word |-> Append(word, node.ch),
     stack |-> Append(stack, [word_length |-> Len(word) + 1,
                              pos |-> entry.pos + node.data_offset])]

WalkerNode(buf, entry, w1, node) ==
    IF node.tag # "Ok" THEN WalkerResult(node.tag, w1, FALSE, <<>>, 0)
    ELSE IF node.ch = 0
    THEN WalkerResult("Ok",
                      [word |-> w1.word, stack |-> WalkerSibling(entry, node, w1)],
                      TRUE, w1.word, entry.pos + node.data_offset)
    ELSE walker_next(buf, WalkerChild(entry, node, w1.word,
                                      WalkerSibling(entry, node, w1)))

\* lines 294-296, with the entry popped and the word truncated
WalkerPopped(buf, entry, w1) ==
    IF ~SliceOk(buf, entry.pos) THEN WalkerResult("Panic", w1, FALSE, <<>>, 0)
    ELSE WalkerNode(buf, entry, w1, read_node(SliceFrom(buf, entry.pos)))

walker_next(buf, walker) ==
    IF walker.stack = <<>>
    THEN WalkerResult("Ok", walker, FALSE, <<>>, 0)
    ELSE WalkerPopped(
             buf,
             walker.stack[Len(walker.stack)],
             [word |-> SubSeq(walker.word, 1,
                              walker.stack[Len(walker.stack)].word_length),
              stack |-> SubSeq(walker.stack, 1, Len(walker.stack) - 1)])

\* find_sibling_for_character: [tag, some, pos]
RECURSIVE find_sibling_for_character(_, _, _)
RECURSIVE FindSiblingNode(_, _, _, _)
FindSiblingNode(buf, pos, ch, node) ==
    IF node.tag # "Ok" THEN [tag |-> node.tag, some |-> FALSE, pos |-> 0]
    ELSE IF node.ch = ch
    THEN [tag |-> "Ok", some |-> TRUE, pos |-> pos + node.data_offset]
    ELSE IF node.sibling_offset = 0
    THEN [tag |-> "Ok", some |-> FALSE, pos |-> 0]
    ELSE find_sibling_for_character(
             buf, pos + node.char_offset + node.sibling_offset, ch)

find_sibling_for_character(buf, pos, ch) ==
    IF pos > Len(buf) THEN [tag |-> "UnexpectedEof", some |-> FALSE, pos |-> 0]
    ELSE FindSiblingNode(buf, pos, ch, read_node(SliceFrom(buf, pos)))

\* find_prefix, from character k of the prefix with the walk at pos
RECURSIVE FindPrefixFrom(_, _, _, _)
RECURSIVE FindPrefixHit(_, _, _, _)
FindPrefixHit(buf, prefix, k, hit) ==
    IF hit.tag # "Ok" \/ ~hit.some THEN hit
    ELSE FindPrefixFrom(buf, prefix, k + 1, hit.pos)

FindPrefixFrom(buf, prefix, k, pos) ==
    IF k > Len(prefix) THEN [tag |-> "Ok", some |-> TRUE, pos |-> pos]
    ELSE IF prefix[k] = 0 THEN [tag |-> "Ok", some |-> FALSE, pos |-> 0]
    ELSE FindPrefixHit(buf, prefix, k,
                       find_sibling_for_character(buf, pos, prefix[k]))

find_prefix(buf, prefix) == FindPrefixFrom(buf, prefix, 1, 4)

\* line 368, with the prefix looked up
FindWordAt(buf, p) ==
    IF p.tag # "Ok" \/ ~p.some THEN p
    ELSE find_sibling_for_character(buf, p.pos, 0)

find_word(buf, word) == FindWordAt(buf, find_prefix(buf, word))

(***************************************************************************)
(* The parts of the program a run does not use stay as constructed.        *)
(***************************************************************************)
NotBuilt ==
    [built |-> FALSE, nodes |-> <<>>, bytes |-> <<>>, at |-> <<>>,
     panicked |-> FALSE]

NoQuery ==
    [kind |-> "none", word |-> <<>>, tag |-> "Ok", some |-> FALSE, pos |-> 0,
     variants |-> <<>>, walker |-> DictionaryWalkerNew, yielded |-> <<>>,
     done |-> FALSE, variant |-> [tag |-> "None"], read |-> <<>>]

BitIdle ==
    /\ writer = BitWriterNew(<<>>)
    /\ writes = <<>>
    /\ bitPhase = "write"
    /\ reader = BitReaderNew(<<>>)
    /\ reads = <<>>

TrieIdle ==
    /\ nodes = TrieBuilderNew
    /\ calls = <<>>
    /\ dictionary = NotBuilt
    /\ query = NoQuery

TransIdle ==
    /\ pair_priorities = <<>>
    /\ tr = <<>>
    /\ resolved = <<>>

SearchIdle == finder = <<>>

BuildIdle == build = <<>>

HeaderIdle == header = <<>>

(***************************************************************************)
(* The bit stream as a state machine: a writer fed a sequence of           *)
(* (bits, n_bits) pairs and closed with done(), then a reader over the     *)
(* written bytes asked for the same widths in the same order.              *)
(***************************************************************************)
\* the values the tests write (bit_writer.rs TEST_VALUES), as bytes
TestValues ==
    { U32FromLeBytes(<<255, 255, 255, 255>>),     \* u32::MAX
      U32FromLeBytes(<<33, 67, 101, 135>>) }      \* 0x87654321

\* the widths written: every alignment 1..7, whole bytes, and 32 bits
Widths == {0, 1, 2, 3, 4, 5, 6, 7, 8, 10, 32}

\* (value, width) with value < 2^width
BitInputs == { [bits |-> U32Low(v, n), n_bits |-> n] : v \in TestValues, n \in Widths }

BitInit ==
    /\ overflow_checks \in BOOLEAN
    /\ HeaderIdle
    /\ BitIdle
    /\ TrieIdle
    /\ BuildIdle
    /\ SearchIdle
    /\ TransIdle

BitAdd(in) ==
    /\ bitPhase = "write"
    /\ ~writer.panicked
    /\ Len(writes) < MaxWrites
    /\ writer' = add_bits(writer, in.bits, in.n_bits, overflow_checks)
    /\ writes' = Append(writes, in)
    /\ UNCHANGED <<overflow_checks, headerVars, buildVars, searchVars, bitPhase, reader, reads, trieVars, transVars>>

BitDone ==
    /\ bitPhase = "write"
    /\ ~writer.panicked
    /\ writer' = done(writer)
    /\ bitPhase' = "read"
    /\ reader' = BitReaderNew(done(writer).output)
    /\ UNCHANGED <<overflow_checks, headerVars, buildVars, searchVars, writes, reads, trieVars, transVars>>

BitRead ==
    /\ bitPhase = "read"
    /\ Len(reads) < Len(writes)
    /\ LET got == read_bits(reader, writes[Len(reads) + 1].n_bits)
       IN  /\ reader' = got.reader
           /\ reads' = Append(reads, got.value)
    /\ UNCHANGED <<overflow_checks, headerVars, buildVars, searchVars, writer, writes, bitPhase, trieVars, transVars>>

BitNext ==
    \/ \E in \in BitInputs : BitAdd(in)
    \/ BitDone
    \/ BitRead

SpecBits == BitInit /\ [][BitNext]_vars

(***************************************************************************)
(* C3  Bit-stream round trip: every sequence of add_bits(value, width)     *)
(* with width <= 32 and value < 2^width, closed by done(), is written      *)
(* without failure, and reading the same widths back in order returns the  *)
(* values written.                                                         *)
(***************************************************************************)
C3_BitRoundTrip ==
    /\ ~writer.panicked
    /\ \A i \in 1..Len(reads) :
          /\ reads[i].some
          /\ reads[i].value = writes[i].bits

(***************************************************************************)
(* The trie builder and the dictionary reader as a state machine: words    *)
(* are added, into_dictionary writes the bytes, and the reader's entry     *)
(* points (find_word and the variant list behind it, DictionaryWalker,     *)
(* check_length) are called on the bytes written.                          *)
(***************************************************************************)
\* "a" and "ab"
LatinWords == { <<97>>, <<97, 98>> }

\* U+10450 repeated: a word long enough for the subtree below its first
\* letter to need a header number of two bytes
LongWord == [i \in 1..LongLen |-> 66640]

\* the long word and U+10468; the characters take four bytes each
ShavianWords == { LongWord, <<66664>> }

\* payload bytes: AJ0 and PNP
Payloads == { 0, 22 }

AddWordInputs ==
    { [word |-> a, translation |-> b, payload_byte |-> p] :
          a \in LatinWords, b \in ShavianWords, p \in Payloads }

\* words looked up: the keys, "b" (never a key), U+10450 (at most a proper
\* prefix of a key), "a\0" and the empty word
QueryWords ==
    LatinWords \cup ShavianWords \cup { <<98>>, <<66640>>, <<97, 0>>, <<>> }

\* the variants chained from pos: extract_variant, the path, then
\* into_next_offset, until the last one.  [tag, list]
RECURSIVE VariantsFrom(_, _, _)
RECURSIVE VariantsNext(_, _, _)
RECURSIVE VariantsWalked(_, _, _, _)
RECURSIVE VariantsExtracted(_, _, _)
VariantsNext(buf, list, nxt) ==
    IF nxt.tag # "Ok" THEN [tag |-> nxt.tag, list |-> list]
    ELSE IF ~nxt.some THEN [tag |-> "Ok", list |-> list]
    ELSE VariantsFrom(buf, nxt.pos, list)

VariantsWalked(buf, acc, v, path) ==
    VariantsNext(buf,
                 Append(acc, [pos |-> v.pos, payload |-> v.payload,
                              article_num |-> v.article_num,
                              path |-> path.chars, path_tag |-> path.tag]),
                 into_next_offset(buf, v))

VariantsExtracted(buf, acc, v) ==
    IF v.tag # "Ok" THEN [tag |-> v.tag, list |-> acc]
    ELSE VariantsWalked(buf, acc, v, WalkPath(buf, v.translation, <<>>))

VariantsFrom(buf, pos, acc) ==
    VariantsExtracted(buf, acc, extract_variant(buf, pos))

TrieInit ==
    /\ overflow_checks \in BOOLEAN
    /\ HeaderIdle
    /\ BitIdle
    /\ TrieIdle
    /\ BuildIdle
    /\ SearchIdle
    /\ TransIdle

\* TrieBuilder::add_word
AddWord(in) ==
    /\ ~dictionary.built
    /\ Len(calls) < MaxWords
    /\ nodes' = add_word(nodes, in.word, in.translation, in.payload_byte)
    /\ calls' = Append(calls, in)
    /\ UNCHANGED <<overflow_checks, headerVars, buildVars, searchVars, dictionary, query, bitVars, transVars>>

\* TrieBuilder::into_dictionary (consumes the builder)
Built(d) ==
    [built |-> TRUE, nodes |-> d.nodes, bytes |-> d.bytes, at |-> d.at,
     panicked |-> d.panicked]

IntoDictionary ==
    /\ ~dictionary.built
    /\ dictionary' = Built(into_dictionary(nodes, overflow_checks))
    /\ UNCHANGED <<overflow_checks, headerVars, buildVars, searchVars, nodes, calls, query, bitVars, transVars>>

\* the word found at r.pos, and its variants
FoundQuery(w, r, vs) ==
    [NoQuery EXCEPT !.kind = "find", !.word = w, !.tag = vs.tag,
                    !.some = TRUE, !.pos = r.pos, !.variants = vs.list]

FindQuery(buf, w, r) ==
    IF r.tag = "Ok" /\ r.some
    THEN FoundQuery(w, r, VariantsFrom(buf, r.pos, <<>>))
    ELSE [NoQuery EXCEPT !.kind = "find", !.word = w, !.tag = r.tag]

\* find_word, and the variants at the position it returns
FindWord(w) ==
    /\ dictionary.built
    /\ ~dictionary.panicked
    /\ query' = FindQuery(dictionary.bytes, w, find_word(dictionary.bytes, w))
    /\ UNCHANGED <<overflow_checks, headerVars, buildVars, searchVars, nodes, calls, dictionary, bitVars, transVars>>

\* check_length
CheckLength ==
    /\ dictionary.built
    /\ ~dictionary.panicked
    /\ query' = [NoQuery EXCEPT !.kind = "check_length",
                    !.tag = check_length(dictionary.bytes).tag]
    /\ UNCHANGED <<overflow_checks, headerVars, buildVars, searchVars, nodes, calls, dictionary, bitVars, transVars>>

\* DictionaryWalker::new
WalkerNew ==
    /\ dictionary.built
    /\ ~dictionary.panicked
    /\ query' = [NoQuery EXCEPT !.kind = "walk"]
    /\ UNCHANGED <<overflow_checks, headerVars, buildVars, searchVars, nodes, calls, dictionary, bitVars, transVars>>

\* the walk after a call of next
Walked(q, r) ==
    [q EXCEPT !.walker = r.walker,
              !.tag = r.tag,
              !.done = (r.tag # "Ok" \/ ~r.some),
              !.yielded = IF r.tag = "Ok" /\ r.some
                          THEN Append(@, [word |-> r.word, pos |-> r.pos])
                          ELSE @]

\* DictionaryWalker::next, until it returns none or an error, and for no
\* more words than twice the calls made can have put in the dictionary
WalkerNext ==
    /\ query.kind = "walk"
    /\ ~query.done
    /\ Len(query.yielded) <= 2 * MaxWords
    /\ query' = Walked(query, walker_next(dictionary.bytes, query.walker))
    /\ UNCHANGED <<overflow_checks, headerVars, buildVars, searchVars, nodes, calls, dictionary, bitVars, transVars>>

TrieNext ==
    \/ \E in \in AddWordInputs : AddWord(in)
    \/ IntoDictionary
    \/ \E w \in QueryWords : FindWord(w)
    \/ CheckLength
    \/ WalkerNew
    \/ WalkerNext

SpecTrie == TrieInit /\ [][TrieNext]_vars

(***************************************************************************)
(* What the calls made put in the dictionary.                              *)
(***************************************************************************)
\* the keys: every word and every translation of a call
Keys ==
    { calls[i].word : i \in 1..Len(calls) }
        \cup { calls[i].translation : i \in 1..Len(calls) }

\* the variants of key k in the order of the calls: each call files the
\* translation under the word, then the word under the translation
RECURSIVE VariantsOfKey(_, _)
VariantsOfKey(k, i) ==
    IF i > Len(calls) THEN <<>>
    ELSE (IF calls[i].word = k
          THEN <<[value |-> calls[i].translation, pos |-> calls[i].payload_byte]>>
          ELSE <<>>)
         \o (IF calls[i].translation = k
             THEN <<[value |-> calls[i].word, pos |-> calls[i].payload_byte]>>
             ELSE <<>>)
         \o VariantsOfKey(k, i + 1)

\* the terminator of word k in the builder, None if there is none
RECURSIVE TerminatorFrom(_, _, _, _)
TerminatorFrom(ns, node, k, i) ==
    IF node = None /\ i > 1 THEN None
    ELSE IF i > Len(k) THEN FindChild(ns, NodeAt(ns, node).first_child, 0)
    ELSE TerminatorFrom(ns, FindChild(ns, NodeAt(ns, node).first_child, k[i]),
                        k, i + 1)

TerminatorOf(ns, k) == TerminatorFrom(ns, 0, k, 1)

\* the header number written at offset start of the bytes
HeaderAt(start) == read_sibling_offset(SliceFrom(dictionary.bytes, start))

\* the offset of the first byte after the header number and the character
\* of node n (the payload of a terminator)
DataAt(n) == dictionary.at[n + 1] + HeaderAt(dictionary.at[n + 1]).len
                 + len_utf8(NodeAt(dictionary.nodes, n).ch)

\* a is before b in lexicographic order, a proper prefix first
LexLess(a, b) ==
    \E k \in 1..(Min(Len(a), Len(b)) + 1) :
        /\ \A j \in 1..(k - 1) : a[j] = b[j]
        /\ \/ k > Len(a) /\ k <= Len(b)
           \/ k <= Len(a) /\ k <= Len(b) /\ a[k] < b[k]

(***************************************************************************)
(* C1  Dictionary round trip: after into_dictionary, find_word of the word *)
(* or of the translation of any add_word call succeeds and reaches a       *)
(* variant list with a variant whose path decodes to the other word of the *)
(* call and whose POS is the one of the call.                              *)
(***************************************************************************)
C1_RoundTrip ==
    (query.kind = "find" /\ query.word \in Keys) =>
        /\ query.tag = "Ok"
        /\ query.some
        /\ LET expected == VariantsOfKey(query.word, 1)
           IN  \A i \in 1..Len(expected) :
                   \E j \in 1..Len(query.variants) :
                       /\ query.variants[j].path_tag = "Ok"
                       /\ query.variants[j].path = expected[i].value
                       /\ query.variants[j].payload = expected[i].pos

(***************************************************************************)
(* C2  Enumeration completeness: DictionaryWalker.next called from the     *)
(* root until it returns none yields without error the inserted keys, each *)
(* once, in ascending lexicographic order.                                 *)
(***************************************************************************)
C2_Enumeration ==
    query.kind = "walk" =>
        /\ query.tag = "Ok"
        /\ \A i \in 1..Len(query.yielded) : query.yielded[i].word \in Keys
        /\ \A i, j \in 1..Len(query.yielded) :
               i < j => LexLess(query.yielded[i].word, query.yielded[j].word)
        /\ query.done =>
               { query.yielded[i].word : i \in 1..Len(query.yielded) } = Keys

(***************************************************************************)
(* C4  Exact-word lookup: find_word(w) returns a position, the byte just   *)
(* after the terminator of w, exactly when w is a key; for any other w     *)
(* (a proper prefix of keys, a word holding \0) it returns none, not an    *)
(* error.                                                                  *)
(***************************************************************************)
C4_ExactLookup ==
    query.kind = "find" =>
        /\ query.some <=> query.word \in Keys
        /\ ~query.some => query.tag = "Ok"
        /\ query.some =>
               query.pos = DataAt(TerminatorOf(dictionary.nodes, query.word))

(***************************************************************************)
(* C6  File header: the bytes of into_dictionary start with the length of  *)
(* the rest as a 4-byte little-endian integer, and check_length accepts    *)
(* them.                                                                   *)
(***************************************************************************)
C6_LengthHeader ==
    query.kind = "check_length" =>
        /\ query.tag = "Ok"
        /\ Len(dictionary.bytes) >= 4
        /\ U32FromLeBytes(SubSeq(dictionary.bytes, 1, 4))
               = U32FromNat(Len(dictionary.bytes) - 4)

(***************************************************************************)
(* C5  Header fixpoint: for every node written by into_dictionary, the     *)
(* sibling offset in its header number (the number without its lowest      *)
(* bit) is the distance from the byte after the header number to the first *)
(* byte of the node's next sibling, and it is 0 exactly when the node has  *)
(* no next sibling.                                                        *)
(***************************************************************************)
C5_HeaderFixpoint ==
    (dictionary.built /\ ~dictionary.panicked) =>
        \A n \in 0..(Len(dictionary.nodes) - 1) :
            /\ HeaderAt(dictionary.at[n + 1]).tag = "Ok"
            /\ IF NodeAt(dictionary.nodes, n).next_sibling = None
               THEN HeaderAt(dictionary.at[n + 1]).offset \div 2 = 0
               ELSE /\ HeaderAt(dictionary.at[n + 1]).offset \div 2 > 0
                    /\ dictionary.at[n + 1]
                           + HeaderAt(dictionary.at[n + 1]).len
                           + HeaderAt(dictionary.at[n + 1]).offset \div 2
                         = dictionary.at[NodeAt(dictionary.nodes, n).next_sibling + 1]

\* a dictionary is written in which a node with a next sibling has a header
\* number of two bytes, and one whose character takes four bytes has a
\* next sibling
C5_Witness ==
    /\ dictionary.built
    /\ ~dictionary.panicked
    /\ \E n \in 0..(Len(dictionary.nodes) - 1) :
           /\ NodeAt(dictionary.nodes, n).next_sibling # None
           /\ HeaderAt(dictionary.at[n + 1]).len = 2
           /\ len_utf8(NodeAt(dictionary.nodes, n).ch) = 4

\* the variants serialised from offset pos on are those of the list from
\* item i on: the POS in the low seven bits of the framing byte, its top
\* bit set exactly on a variant that another follows, then the path to the
\* translation; the offset after the last one
RECURSIVE VariantsWritten(_, _, _)
RECURSIVE PathWritten(_, _, _, _)
PathWritten(pos, variants, i, path) ==
    /\ pos + 1 + Len(path) <= Len(dictionary.bytes)
    /\ SubSeq(dictionary.bytes, pos + 2, pos + 1 + Len(path)) = path
    /\ VariantsWritten(pos + 1 + Len(path), variants, i + 1)

VariantsWritten(pos, variants, i) ==
    IF i > Len(variants) THEN TRUE
    ELSE /\ pos < Len(dictionary.bytes)
         /\ dictionary.bytes[pos + 1] % 128 = variants[i].pos
         /\ dictionary.bytes[pos + 1] >= 128 <=> i < Len(variants)
         /\ PathWritten(pos, variants, i,
                done(write_path(dictionary.nodes, variants[i].value,
                                BitWriterNew(<<>>), overflow_checks)).output)

\* the bytes of the variants of a list
RECURSIVE VariantsSize(_, _)
VariantsSize(variants, i) ==
    IF i > Len(variants) THEN 0
    ELSE 1 + Len(done(write_path(dictionary.nodes, variants[i].value,
                                 BitWriterNew(<<>>), overflow_checks)).output)
           + VariantsSize(variants, i + 1)

is_alphabetic(ch) ==
    \/ ch >= 65 /\ ch <= 90
    \/ ch >= 97 /\ ch <= 122
    \/ ch = 223
    \/ ch >= 66640 /\ ch <= 66687

to_lowercase(ch) == IF ch >= 65 /\ ch <= 90 THEN <<ch + 32>> ELSE <<ch>>

to_uppercase(ch) ==
    IF ch >= 97 /\ ch <= 122 THEN <<ch - 32>>
    ELSE IF ch = 223 THEN <<83, 83>>
    ELSE <<ch>>

(***************************************************************************)
(* Parts of speech (parts_of_speech.rs).  The module pos_table that sets   *)
(* N_POS and PAIR_PRIORITIES is generated at build time: N_POS is the      *)
(* number of the tags and of the start-of-sentence value together, and the *)
(* table holds one score for each (left, right) pair, row by row.          *)
(***************************************************************************)
N_POS == 40

PNP == 22

NP0 == 19

VVB == 32

START_OF_SENTENCE == N_POS - 1

\* a table that is 0 but for the scores listed as <<left, right, score>>
PairPriorities(scores) ==
    [k \in 1..(N_POS * N_POS) |->
        IF \E e \in scores : e[1] * N_POS + e[2] + 1 = k
        THEN (CHOOSE e \in scores : e[1] * N_POS + e[2] + 1 = k)[3]
        ELSE 0]

\* the tables the program is built with here: one by which a pronoun or a
\* proper noun is the likeliest start of a sentence and a verb the
\* likeliest after a pronoun, one that scores every start of a sentence
\* alike, one by which a proper noun is the likeliest anywhere
PairPriorityTables ==
    { PairPriorities({ <<START_OF_SENTENCE, PNP, 2>>, <<START_OF_SENTENCE, VVB, 1>>,
                       <<START_OF_SENTENCE, NP0, 2>>, <<PNP, VVB, 2>>,
                       <<PNP, PNP, 1>> }),
      PairPriorities({ <<START_OF_SENTENCE, p, 1>> : p \in 0..(N_POS - 2) }),
      PairPriorities({ <<l, NP0, 3>> : l \in 0..(N_POS - 1) }) }

pair_priority(left, right) == pair_priorities[left * N_POS + right + 1]

score_part_of_speech(left, right) ==
    IF right >= N_POS THEN 0 ELSE pair_priority(left, right)

\* u8::cmp
Cmp(a, b) == IF a < b THEN "Less" ELSE IF a > b THEN "Greater" ELSE "Equal"

compare_parts_of_speech(left, right_a, right_b) ==
    IF left >= N_POS THEN "Equal"
    ELSE Cmp(score_part_of_speech(left, right_a),
             score_part_of_speech(left, right_b))

(***************************************************************************)
(* The transliterator (transliteration.rs).  A run is threaded through    *)
(* the operators as x = [t, log]: t the Transliterater and the position of *)
(* run, log the words resolved.  An operator that fails leaves the error   *)
(* in t.tag, and run returns it.                                           *)
(***************************************************************************)
SomePos(p) == [some |-> TRUE, value |-> p]

NoPos == [some |-> FALSE, value |-> 0]

\* Transliterater::new; next is the index of the character the input
\* iterator yields next
TransliteraterNew(dict, input) ==
    [dictionary |-> dict, input |-> input, next |-> 1, output |-> <<>>,
     buf |-> <<>>, last_pos |-> SomePos(START_OF_SENTENCE),
     pc |-> "run", ch |-> 0, tag |-> "Ok"]

\* an error returned with ?
TransFail(x, tag) == [x EXCEPT !.t.tag = tag, !.t.pc = "done"]

next_is_alphabetic(input, next) ==
    IF next > Len(input) THEN FALSE ELSE is_alphabetic(input[next])

\* write_path: what it writes of a path walked to its end or to its first
\* error
WritePathChars(path, capitalize) ==
    IF capitalize /\ path.chars # <<>>
    THEN to_uppercase(Head(path.chars)) \o Tail(path.chars)
    ELSE path.chars

\* should_capitalize: [tag, value]
should_capitalize_any_i(last_pos, payload, path) ==
    IF last_pos.some /\ last_pos.value = START_OF_SENTENCE
    THEN [tag |-> "Ok", value |-> TRUE]
    ELSE IF payload = NP0 THEN [tag |-> "Ok", value |-> TRUE]
    ELSE IF payload = PNP
    THEN IF path.chars = <<>>
         THEN [tag |-> path.tag, value |-> FALSE]
         ELSE [tag |-> "Ok", value |-> path.chars[1] = 105]
    ELSE [tag |-> "Ok", value |-> FALSE]

should_capitalize(last_pos, payload, path) ==
    IF last_pos.some /\ last_pos.value = START_OF_SENTENCE
    THEN [tag |-> "Ok", value |-> TRUE]
    ELSE IF payload = NP0 THEN [tag |-> "Ok", value |-> TRUE]
    ELSE IF payload = PNP
    THEN IF path.chars = <<>>
         THEN [tag |-> path.tag, value |-> FALSE]
         ELSE [tag |-> "Ok",
               value |-> /\ path.chars[1] = 105
                         /\ Len(path.chars) = 1
                         /\ path.tag = "Ok"]
    ELSE [tag |-> "Ok", value |-> FALSE]

\* the record of a word or part that was found
Found(x, word, variant_pos, variant, written) ==
    [at |-> x.t.next, word |-> word, found |-> TRUE,
     variant_pos |-> variant_pos, before |-> x.t.last_pos,
     chosen |-> variant.pos, payload |-> variant.payload,
     written |-> written]

\* the record of a word or part that was not
NotFound(x, word) ==
    [at |-> x.t.next, word |-> word, found |-> FALSE, variant_pos |-> 0,
     before |-> x.t.last_pos, chosen |-> 0, payload |-> 0, written |-> word]

\* write_variant, lines 132-133
WriteVariantPath(x, word, variant_pos, variant, path, capitalize) ==
    IF capitalize.tag # "Ok" THEN TransFail(x, capitalize.tag)
    ELSE [t |-> [x.t EXCEPT
                    !.last_pos = SomePos(variant.payload),
                    !.output = @ \o WritePathChars(path, capitalize.value),
                    !.tag = path.tag,
                    !.pc = IF path.tag = "Ok" THEN @ ELSE "done"],
          log |-> Append(x.log,
                         Found(x, word, variant_pos, variant,
                               WritePathChars(path, capitalize.value)))]

WriteVariantWalked(x, word, variant_pos, variant, path) ==
    WriteVariantPath(x, word, variant_pos, variant, path,
                     should_capitalize(x.t.last_pos, variant.payload, path))

write_variant(x, word, variant_pos, variant) ==
    WriteVariantWalked(x, word, variant_pos, variant,
                       WalkPath(x.t.dictionary, variant.translation, <<>>))

\* lines 160-164: the variant read replaces the best one
ReplacesBestOnTie(left, best, variant) ==
    compare_parts_of_speech(left, best.payload, variant.payload) # "Greater"

ReplacesBest(left, best, variant) ==
    compare_parts_of_speech(left, best.payload, variant.payload) = "Less"

\* choose_and_write_variant
RECURSIVE ChooseLoop(_, _, _, _, _)
RECURSIVE ChooseNext(_, _, _, _, _)
RECURSIVE ChooseCompare(_, _, _, _, _)
ChooseCompare(x, word, variant_pos, best, variant) ==
    IF variant.tag # "Ok" THEN TransFail(x, variant.tag)
    ELSE ChooseLoop(x, word, variant_pos,
                    IF ReplacesBest(x.t.last_pos.value, best, variant)
                    THEN variant ELSE best,
                    variant)

ChooseNext(x, word, variant_pos, best, offset) ==
    IF offset.tag # "Ok" THEN TransFail(x, offset.tag)
    ELSE IF ~offset.some THEN write_variant(x, word, variant_pos, best)
    ELSE ChooseCompare(x, word, variant_pos, best,
                       extract_variant(x.t.dictionary, offset.pos))

ChooseLoop(x, word, variant_pos, best, variant) ==
    ChooseNext(x, word, variant_pos, best,
               into_next_offset(x.t.dictionary, variant))

ChooseExtracted(x, word, variant_pos, variant) ==
    IF variant.tag # "Ok" THEN TransFail(x, variant.tag)
    ELSE IF ~x.t.last_pos.some \/ variant.is_last
    THEN write_variant(x, word, variant_pos, variant)
    ELSE ChooseLoop(x, word, variant_pos, variant, variant)

choose_and_write_variant(x, word, variant_pos) ==
    ChooseExtracted(x, word, variant_pos,
                    extract_variant(x.t.dictionary, variant_pos))

\* str::split
RECURSIVE SplitFrom(_, _, _, _, _)
SplitFrom(word, sep, i, part, parts) ==
    IF i > Len(word) THEN Append(parts, part)
    ELSE IF word[i] = sep THEN SplitFrom(word, sep, i + 1, <<>>, Append(parts, part))
    ELSE SplitFrom(word, sep, i + 1, Append(part, word[i]), parts)

Split(word, sep) == SplitFrom(word, sep, 1, <<>>, <<>>)

\* lines 188-191, and 178-179
WriteUnknownKeep(x, word) ==
    [t |-> [x.t EXCEPT !.output = @ \o word],
     log |-> Append(x.log, NotFound(x, word))]

WriteUnknown(x, word) ==
    [t |-> [x.t EXCEPT !.last_pos = NoPos, !.output = @ \o word],
     log |-> Append(x.log, NotFound(x, word))]

\* write_hyphenated_parts
RECURSIVE HyphenParts(_, _, _)
RECURSIVE HyphenFound(_, _, _, _)
RECURSIVE HyphenJoin(_, _, _)
HyphenJoin(x, parts, i) ==
    IF x.t.tag # "Ok" THEN x
    ELSE IF i < Len(parts)
    THEN HyphenParts([x EXCEPT !.t.output = Append(@, 45)], parts, i + 1)
    ELSE HyphenParts(x, parts, i + 1)

HyphenFound(x, parts, i, found) ==
    IF found.tag # "Ok" THEN TransFail(x, found.tag)
    ELSE IF found.some
    THEN HyphenJoin(choose_and_write_variant(x, parts[i], found.pos), parts, i)
    ELSE HyphenJoin(WriteUnknown(x, parts[i]), parts, i)

HyphenParts(x, parts, i) ==
    IF i > Len(parts) THEN x
    ELSE HyphenFound(x, parts, i, find_word(x.t.dictionary, parts[i]))

write_hyphenated_parts(x, word) ==
    IF Split(word, 45) = <<>> THEN WriteUnknown(x, word)
    ELSE HyphenParts(x, Split(word, 45), 1)

\* flush_buf
FlushFoundSplit(x, word, found) ==
    IF found.tag # "Ok" THEN TransFail(x, found.tag)
    ELSE write_hyphenated_parts(x, word)

FlushFound(x, word, found) ==
    IF found.tag # "Ok" THEN TransFail(x, found.tag)
    ELSE IF found.some THEN choose_and_write_variant(x, word, found.pos)
    ELSE write_hyphenated_parts(x, word)

flush_buf(x) ==
    IF x.t.buf = <<>> THEN x
    ELSE FlushFound([x EXCEPT !.t.buf = <<>>], x.t.buf,
                    find_word(x.t.dictionary, x.t.buf))

\* line 248: the character written ends a sentence
EndsSentenceAtEveryDot(ch, input, next) == ch = 46

EndsSentence(ch, input, next) == ch = 46 /\ ~next_is_alphabetic(input, next)

\* lines 233-235: the character read is kept in the word
InWordAnyNext(buf, ch, input, next) ==
    /\ buf # <<>>
    /\ ch \in {39, 45, 8217}

InWord(buf, ch, input, next) ==
    /\ buf # <<>>
    /\ ch \in {39, 45, 8217}
    /\ next_is_alphabetic(input, next)

\* run, lines 244-246 once flush_buf has returned: the character is next
\* written
RunFlushed(x, ch) ==
    IF x.t.tag # "Ok" THEN x
    ELSE [x EXCEPT !.t.pc = "write", !.t.ch = ch]

\* run, lines 227-244: the character read is put in the word, or ends it
RunRead(x, ch) ==
    IF is_alphabetic(ch)
    THEN [x EXCEPT !.t.buf = @ \o to_lowercase(ch)]
    ELSE IF InWord(x.t.buf, ch, x.t.input, x.t.next)
    THEN [x EXCEPT !.t.buf = Append(@, IF ch = 8217 THEN 39 ELSE ch)]
    ELSE RunFlushed(flush_buf(x), ch)

\* run, lines 246-250
RunWrittenDropped(t) ==
    [t EXCEPT !.last_pos = IF EndsSentence(t.ch, t.input, t.next)
                           THEN SomePos(START_OF_SENTENCE) ELSE @,
              !.pc = "run", !.ch = 0]

RunWritten(t) ==
    [t EXCEPT !.output = Append(@, t.ch),
              !.last_pos = IF EndsSentence(t.ch, t.input, t.next)
                           THEN SomePos(START_OF_SENTENCE) ELSE @,
              !.pc = "run", !.ch = 0]

\* run, line 254
RunFinished(x) == [x EXCEPT !.t.pc = "done"]

(***************************************************************************)
(* The transliterator as a state machine: one text is transliterated with  *)
(* one dictionary, a step of run at a time.                                *)
(***************************************************************************)
\* the dictionary of the tests (transliteration.rs, DICTIONARY)
TestDictionary ==
    << 0, 0, 0, 0,
       7, 97, 0, 0, 0, 0, 0, 1,
       7, 98, 0, 0, 0, 0, 0, 0,
       7, 99, 0, 0, 0, 0, 0, 3,
       17, 100, 5, 0, 0, 0, 0, 2,
       0, 39, 0, 98, 0, 0, 0, 0, 0, 1,
       11, 101, 0, 45, 0, 102, 0, 0, 0, 0, 0, 1,
       7, 105, 0, 0, 0, 0, 0, 6,
       11, 106, 0, 0,
       150, 0, 0, 0,
       32, 0, 0, 1,
       15, 112, 0, 97, 0, 114, 0, 105, 0, 115, 0, 0,
       19, 0, 0, 8,
       15, 240, 144, 145, 144, 0, 240, 144, 145, 168, 0, 0,
       19, 0, 0, 7,
       10, 240, 144, 145, 166, 0, 0, 32, 0, 0, 5,
       0, 240, 144, 145, 178, 0, 0, 22, 0, 0, 5 >>

\* a dictionary of the same format: "a" has one variant, of a part of
\* speech outside the table, to U+00DF; "i" is the pronoun "i"; "ij" a
\* pronoun "ij"; "j" has four variants: a verb "a", U+00DF of a part of
\* speech outside the table, the pronoun "i" and a proper noun "j"
VariantDictionary ==
    << 53, 0, 0, 0,
       7, 97, 0, 0, 126, 0, 0, 3,
       15, 105, 5, 0, 22, 0, 0, 1, 0, 106, 0, 0, 22, 0, 0, 5,
       19, 106, 0, 0,
       160, 0, 0, 0,
       254, 0, 0, 3,
       150, 0, 0, 1,
       19, 0, 0, 2,
       0, 195, 159, 0, 0, 0, 0, 0, 0 >>

Dictionaries == { TestDictionary, VariantDictionary }

\* "a", "i", "j", ".", " "
Alphabet == { 97, 105, 106, 46, 32 }

Inputs == UNION { [1..n -> Alphabet] : n \in 0..MaxInput }

\* no step of a run depends on the build profile: the one of the tests
TransInit ==
    /\ overflow_checks = TRUE
    /\ HeaderIdle
    /\ BitIdle
    /\ TrieIdle
    /\ BuildIdle
    /\ SearchIdle
    /\ pair_priorities \in PairPriorityTables
    /\ \E dict \in Dictionaries, input \in Inputs :
           tr = TransliteraterNew(dict, input)
    /\ resolved = <<>>

\* the Transliterater and the words resolved after a step
RunSet(x) ==
    /\ tr' = x.t
    /\ resolved' = x.log
    /\ UNCHANGED <<overflow_checks, headerVars, buildVars, searchVars, pair_priorities, bitVars, trieVars>>

\* run: a character is read from the input; it is put in the word, or the
\* word is flushed
RunChar ==
    /\ tr.pc = "run"
    /\ tr.next <= Len(tr.input)
    /\ RunSet(RunRead([t |-> [tr EXCEPT !.next = @ + 1], log |-> resolved],
                      tr.input[tr.next]))

\* run: the character that ended the word is written
RunWrite ==
    /\ tr.pc = "write"
    /\ RunSet([t |-> RunWritten(tr), log |-> resolved])

\* run: the input has ended, the last word is flushed
RunEnd ==
    /\ tr.pc = "run"
    /\ tr.next > Len(tr.input)
    /\ RunSet(RunFinished(flush_buf([t |-> tr, log |-> resolved])))

TransNext ==
    \/ RunChar
    \/ RunWrite
    \/ RunEnd

SpecTrans == TransInit /\ [][TransNext]_vars

(***************************************************************************)
(* What a run has resolved, read back from the dictionary.                 *)
(***************************************************************************)
\* the variants stored at the terminator a word was found at, in order
StoredVariants(e) == VariantsFrom(tr.dictionary, e.variant_pos, <<>>).list

\* the score of a variant's part of speech after the context: that of the
\* table, 0 outside the table
Score(last_pos, pos) ==
    IF last_pos >= N_POS \/ pos >= N_POS THEN 0
    ELSE pair_priorities[last_pos * N_POS + pos + 1]

\* the translation of the variant at offset pos of the dictionary
StoredPath(pos) ==
    WalkPath(tr.dictionary, PathWalkerNew(tr.dictionary, pos + 3), <<>>).chars

\* the part of speech of the variant at offset pos of the dictionary
StoredPos(pos) == tr.dictionary[pos + 1] % 128

\* the character at index p of the input is a "." that no alphabetic
\* character follows
Boundary(p) ==
    /\ tr.input[p] = 46
    /\ p = Len(tr.input) \/ ~is_alphabetic(tr.input[p + 1])

\* variant k of the stored variants vs is the first of the highest score
\* after the context
FirstOfHighest(last_pos, vs, k) ==
    /\ \A j \in 1..Len(vs) :
           Score(last_pos, vs[j].payload) <= Score(last_pos, vs[k].payload)
    /\ \A j \in 1..(k - 1) :
           Score(last_pos, vs[j].payload) < Score(last_pos, vs[k].payload)

\* the variant written for the resolved word e is the one to choose among
\* the stored variants vs
Selected(e, vs) ==
    /\ vs # <<>>
    /\ IF ~e.before.some \/ Len(vs) = 1
       THEN e.chosen = vs[1].pos
       ELSE \E k \in 1..Len(vs) :
                /\ e.chosen = vs[k].pos
                /\ FirstOfHighest(e.before.value, vs, k)

(***************************************************************************)
(* C8  Variant selection: when run has returned, every found word that it  *)
(* resolved with an unknown context, or that has one variant only, was     *)
(* written with its first stored variant; any other was written with the   *)
(* first variant in stored order among those of the highest score after    *)
(* the context, a part of speech outside the table scoring 0.              *)
(***************************************************************************)
C8_VariantSelection ==
    tr.pc = "done" =>
        \A i \in 1..Len(resolved) :
            resolved[i].found =>
                Selected(resolved[i], StoredVariants(resolved[i]))

\* the word e was resolved in a known context and written with a later
\* variant than its first
SelectedLater(e, vs) ==
    /\ e.before.some
    /\ e.before.value < N_POS
    /\ Len(vs) = 4
    /\ \E j \in 1..4 : vs[j].payload >= N_POS
    /\ e.chosen # vs[1].pos
    /\ e.chosen # vs[4].pos
    /\ Score(e.before.value, vs[4].payload) = Score(e.before.value, e.payload)

\* a word with a variant outside the table among its four was resolved in
\* a known context and written with a variant that is not its first, and a
\* later variant has the same score as the one written
C8_Witness ==
    /\ tr.pc = "done"
    /\ \E i \in 1..Len(resolved) :
           /\ resolved[i].found
           /\ SelectedLater(resolved[i], StoredVariants(resolved[i]))

\* what is written for the resolved word e is the path of the variant
\* chosen, of part of speech pos, with the first character in upper case
\* where the rule says so
Capitalised(e, pos, path) ==
    e.written =
        IF /\ path # <<>>
           /\ \/ e.before = SomePos(START_OF_SENTENCE)
              \/ pos = NP0
              \/ pos = PNP /\ path = <<105>>
        THEN to_uppercase(path[1]) \o Tail(path)
        ELSE path

(***************************************************************************)
(* C9  Capitalisation: when run has returned, what it wrote for each       *)
(* variant it chose is the variant's path with the first character in      *)
(* upper case if, when the word was resolved, the context was the start of *)
(* a sentence, or the variant is a proper noun (NP0), or it is a pronoun   *)
(* (PNP) whose path is the one character "i"; otherwise it is the path     *)
(* unchanged.  The characters after the first are those of the path in     *)
(* both cases.                                                             *)
(***************************************************************************)
C9_Capitalisation ==
    tr.pc = "done" =>
        \A i \in 1..Len(resolved) :
            resolved[i].found =>
                Capitalised(resolved[i], StoredPos(resolved[i].chosen),
                            StoredPath(resolved[i].chosen))

\* run has returned; away from the start of a sentence it wrote the
\* pronoun "i" as "I", and at the start of a sentence a word of one
\* character in upper case
C9_Witness ==
    /\ tr.pc = "done"
    /\ \E i \in 1..Len(resolved) :
           /\ resolved[i].found
           /\ resolved[i].before.some
           /\ resolved[i].before.value # START_OF_SENTENCE
           /\ StoredPos(resolved[i].chosen) = PNP
           /\ resolved[i].written = <<73>>
    /\ \E i \in 1..Len(resolved) :
           /\ resolved[i].found
           /\ resolved[i].before = SomePos(START_OF_SENTENCE)
           /\ Len(resolved[i].written) = 1
           /\ resolved[i].written # StoredPath(resolved[i].chosen)

(***************************************************************************)
(* C10  Sentence boundary: writing a "." that no alphabetic character      *)
(* follows in the input (the end of the input included) sets the context   *)
(* to the start of a sentence; writing any other character leaves the      *)
(* context as it is, and so does reading a character that resolves no      *)
(* word.  So a word is resolved at the start of a sentence exactly when it *)
(* is the first word, or such a "." was written since the word before it.  *)
(***************************************************************************)
C10_SentenceBoundary ==
    /\ [][/\ (tr.pc = "write" /\ tr.ch = 46
                 /\ (tr.next > Len(tr.input) \/ ~is_alphabetic(tr.input[tr.next])))
                => tr'.last_pos = SomePos(START_OF_SENTENCE)
          /\ (tr.pc = "write"
                 /\ ~(tr.ch = 46
                      /\ (tr.next > Len(tr.input) \/ ~is_alphabetic(tr.input[tr.next]))))
                => tr'.last_pos = tr.last_pos
          /\ (tr.pc = "run" /\ resolved' = resolved)
                => tr'.last_pos = tr.last_pos]_vars
    /\ [](\A i \in 1..Len(resolved) :
              resolved[i].before = SomePos(START_OF_SENTENCE)
                  <=> \/ i = 1
                      \/ /\ i > 1
                         /\ \E p \in (resolved[i - 1].at - 1)..(resolved[i].at - 2) :
                                Boundary(p))

\* a run has written a "." followed by a space and resolved the next word
\* at the start of a sentence
C10_Witness ==
    \E i \in 2..Len(resolved) :
        /\ resolved[i].found
        /\ resolved[i].before = SomePos(START_OF_SENTENCE)
        /\ resolved[i - 1].found
        /\ tr.input[resolved[i - 1].at - 1] = 46
        /\ tr.input[resolved[i - 1].at] = 32

(***************************************************************************)
(* The transliterator on texts with hyphens, apostrophes and capitals,     *)
(* with the dictionary of the tests and a table of equal scores.           *)
(***************************************************************************)
\* "a", "e", "f", "Q", "-", "'", U+2019
GlueAlphabet == { 97, 101, 102, 81, 45, 39, 8217 }

GlueInputs == UNION { [1..n -> GlueAlphabet] : n \in 0..MaxInput }

GlueInit ==
    /\ overflow_checks = TRUE
    /\ HeaderIdle
    /\ BitIdle
    /\ TrieIdle
    /\ BuildIdle
    /\ SearchIdle
    /\ pair_priorities = PairPriorities({})
    /\ \E input \in GlueInputs : tr = TransliteraterNew(TestDictionary, input)
    /\ resolved = <<>>

SpecGlue == GlueInit /\ [][TransNext]_vars

\* the characters w are in the input, one after the other
InInput(w) ==
    \E p \in 1..(Len(tr.input) + 1) :
        /\ p + Len(w) - 1 <= Len(tr.input)
        /\ SubSeq(tr.input, p, p + Len(w) - 1) = w

(***************************************************************************)
(* C11  Unknown-word pass-through: a run returns no error for a word or a  *)
(* part that is not in the dictionary, and what it writes for it is the    *)
(* characters that the input has for it.                                   *)
(***************************************************************************)
C11_PassThrough ==
    /\ tr.tag = "Ok"
    /\ \A i \in 1..Len(resolved) :
           ~resolved[i].found => InInput(resolved[i].written)

\* the words of the records es from record i on, a "-" between each two
RECURSIVE JoinWords(_, _)
JoinWords(es, i) ==
    IF i > Len(es) THEN <<>>
    ELSE IF i = Len(es) THEN es[i].word
    ELSE es[i].word \o <<45>> \o JoinWords(es, i + 1)

\* what was written for the records es from record i on, a "-" between
\* each two
RECURSIVE JoinWritten(_, _)
JoinWritten(es, i) ==
    IF i > Len(es) THEN <<>>
    ELSE IF i = Len(es) THEN es[i].written
    ELSE es[i].written \o <<45>> \o JoinWritten(es, i + 1)

\* the buffered word w, looked up whole with result whole, was resolved as
\* the records es and took the output from out to out2
FlushedAs(w, whole, es, out, out2) ==
    /\ es # <<>>
    /\ out2 = out \o JoinWritten(es, 1)
    /\ IF whole.some
       THEN /\ Len(es) = 1
            /\ es[1].word = w
            /\ es[1].found
            /\ es[1].variant_pos = whole.pos
       ELSE /\ JoinWords(es, 1) = w
            /\ \A k \in 1..Len(es) :
                   /\ \A j \in 1..Len(es[k].word) : es[k].word[j] # 45
                   /\ es[k].found
                          <=> find_word(tr.dictionary, es[k].word).some
                   /\ es[k].found =>
                          es[k].variant_pos
                              = find_word(tr.dictionary, es[k].word).pos

(***************************************************************************)
(* C12  Hyphen fallback: a buffered word that is in the dictionary whole   *)
(* is written with its translation and is not split; one that is not is    *)
(* split at every "-", each part is looked up on its own, in order, and    *)
(* what is written for the parts is joined by one "-" between each two     *)
(* parts, none before the first or after the last.                         *)
(***************************************************************************)
C12_HyphenFallback ==
    [][resolved' # resolved =>
           FlushedAs(tr.buf, find_word(tr.dictionary, tr.buf),
                     SubSeq(resolved', Len(resolved) + 1, Len(resolved')),
                     tr.output, tr'.output)]_vars

\* a run has split a word at its "-" into a part that is in the dictionary
\* and a part that is not, and has written the "-" between them
C12_Witness ==
    \E i \in 1..(Len(resolved) - 1) :
        /\ resolved[i].at = resolved[i + 1].at
        /\ resolved[i].found
        /\ ~resolved[i + 1].found
        /\ \E p \in 1..Len(tr.output) : tr.output[p] = 45

(***************************************************************************)
(* C13  Intra-word glue: when run reads one of "'", "-", U+2019, it puts   *)
(* the character in the word buffer (U+2019 as "'") and writes nothing if  *)
(* the buffer is not empty and the next character of the input is          *)
(* alphabetic; in every other case it ends the word: the buffer is         *)
(* flushed, and the character is then written to the output unchanged.     *)
(***************************************************************************)
C13_Glue ==
    [][/\ (tr.pc = "run" /\ tr.next <= Len(tr.input)
              /\ tr.input[tr.next] \in {39, 45, 8217})
             => IF /\ tr.buf # <<>>
                   /\ tr.next < Len(tr.input)
                   /\ is_alphabetic(tr.input[tr.next + 1])
                THEN /\ tr'.buf = Append(tr.buf,
                                         IF tr.input[tr.next] = 8217 THEN 39
                                         ELSE tr.input[tr.next])
                     /\ tr'.output = tr.output
                     /\ resolved' = resolved
                     /\ tr'.pc = "run"
                ELSE /\ tr'.buf = <<>>
                     /\ tr.buf # <<>> <=> resolved' # resolved
                     /\ tr'.pc = "write"
                     /\ tr'.ch = tr.input[tr.next]
       /\ tr.pc = "write"
             => /\ tr'.output = Append(tr.output, tr.ch)
                /\ tr'.buf = tr.buf
                /\ resolved' = resolved]_vars

\* a run has written a "-" read with an empty buffer, and has then put a
\* U+2019 in the buffer as "'"
C13_Witness ==
    /\ tr.pc = "run"
    /\ tr.next > 1
    /\ tr.input[tr.next - 1] = 8217
    /\ Len(tr.buf) >= 2
    /\ tr.buf[Len(tr.buf)] = 39
    /\ tr.output # <<>>
    /\ tr.output[Len(tr.output)] = 45

(***************************************************************************)
(* Prefix search (jni_wrapper/dictionary.rs): the Finder looks the prefix  *)
(* up, then fills the array of results from the walker below it.           *)
(***************************************************************************)
\* the most characters of a prefix
MaxPrefix == 2

\* the longest array of results
MaxResults == 3

\* a slot of the array that holds no SearchResult
Null == [word |-> <<>>, translation |-> <<>>, pos |-> 0, article_index |-> 0,
         set |-> FALSE]

\* run_search: the Finder before search runs
FinderNew(dict, prefix, results) ==
    [dictionary |-> dict, prefix |-> prefix, results |-> results,
     walker |-> DictionaryWalkerNew, result_num |-> 0,
     pc |-> "search", tag |-> "Ok", ret |-> 0]

FinderFail(f, tag) == [f EXCEPT !.tag = tag, !.pc = "done"]

FinderReturn(f, n) == [f EXCEPT !.ret = n, !.pc = "done"]

\* make_search_result, with the translation walked
make_search_result(word, variant, path) ==
    [word |-> word, translation |-> path.chars, pos |-> variant.payload,
     article_index |-> variant.article_num, set |-> TRUE]

\* lines 156-159: the walker of find_results
FindResultsWalkerRoot(prefix_pos) == DictionaryWalkerFrom(4)

FindResultsWalker(prefix_pos) == DictionaryWalkerFrom(prefix_pos)

\* add_variants
RECURSIVE add_variants(_, _, _)
RECURSIVE AddVariantsNext(_, _, _)
RECURSIVE AddVariantsWalked(_, _, _, _)
RECURSIVE AddVariantsExtracted(_, _, _)
\* lines 134-137
AddVariantsNext(f, word, nxt) ==
    IF nxt.tag # "Ok" THEN FinderFail(f, nxt.tag)
    ELSE IF ~nxt.some THEN f
    ELSE add_variants(f, word, nxt.pos)

\* lines 122-137: the translation is read to its end by make_search_result
AddVariantsWalked(f, word, variant, path) ==
    IF path.tag # "Ok" THEN FinderFail(f, path.tag)
    ELSE AddVariantsNext(
             [f EXCEPT !.results[f.result_num + 1] =
                           make_search_result(word, variant, path),
                       !.result_num = @ + 1],
             word,
             IF variant.is_last THEN [tag |-> "Ok", some |-> FALSE, pos |-> 0]
             ELSE NextOffsetAfter(variant, path))

AddVariantsExtracted(f, word, variant) ==
    IF variant.tag # "Ok" THEN FinderFail(f, variant.tag)
    ELSE AddVariantsWalked(f, word, variant,
                           WalkPath(f.dictionary, variant.translation, <<>>))

add_variants(f, word, variant_pos) ==
    IF f.result_num >= Len(f.results) THEN f
    ELSE AddVariantsExtracted(f, word,
                              extract_variant(f.dictionary, variant_pos))

\* lines 165-181: the body of the loop of find_results, the walker moved on
FindResultsWord(f, r) ==
    IF r.tag # "Ok" THEN FinderFail(f, r.tag)
    ELSE IF ~r.some THEN FinderReturn([f EXCEPT !.walker = r.walker],
                                      f.result_num)
    ELSE add_variants([f EXCEPT !.walker = r.walker],
                      f.prefix \o r.word, r.pos)

\* one turn of the loop of find_results
find_results(f) ==
    IF f.result_num >= Len(f.results) THEN FinderReturn(f, f.result_num)
    ELSE FindResultsWord(f, walker_next(f.dictionary, f.walker))

\* Finder::search, the prefix looked up
SearchAt(f, p) ==
    IF p.tag # "Ok" THEN FinderFail(f, p.tag)
    ELSE IF ~p.some THEN FinderReturn(f, 0)
    ELSE [f EXCEPT !.walker = FindResultsWalker(p.pos), !.pc = "find"]

\* dictionary::find_prefix_iter: find_prefix over the characters of the
\* CharSequence of the prefix
find_prefix_iter(buf, prefix) == find_prefix(buf, prefix)

search(f) == SearchAt(f, find_prefix_iter(f.dictionary, f.prefix))

\* "a", "d", "i", "j", "'" and U+0000
PrefixAlphabet == { 97, 100, 105, 106, 39, 0 }

Prefixes == UNION { [1..n -> PrefixAlphabet] : n \in 0..MaxPrefix }

\* the arrays the caller passes: every slot is null
ResultArrays == { [k \in 1..n |-> Null] : n \in 0..MaxResults }

SearchInit ==
    /\ overflow_checks = TRUE
    /\ HeaderIdle
    /\ BitIdle
    /\ TrieIdle
    /\ BuildIdle
    /\ TransIdle
    /\ \E dict \in Dictionaries, prefix \in Prefixes, results \in ResultArrays :
           finder = FinderNew(dict, prefix, results)

\* Finder::search up to the call of find_results
Search ==
    /\ finder.pc = "search"
    /\ finder' = search(finder)
    /\ UNCHANGED <<overflow_checks, headerVars, buildVars, bitVars, trieVars, transVars>>

\* find_results: a word of the walker and its variants, or the return
FindResults ==
    /\ finder.pc = "find"
    /\ finder' = find_results(finder)
    /\ UNCHANGED <<overflow_checks, headerVars, buildVars, bitVars, trieVars, transVars>>

SearchNext == Search \/ FindResults

SpecSearch == SearchInit /\ [][SearchNext]_vars

\* the (word, variant) records of every word the walker yields, in order
RECURSIVE WalkRecords(_, _, _)
RECURSIVE WalkRecordsWord(_, _, _)
RECURSIVE VariantRecords(_, _, _)
VariantRecords(word, list, i) ==
    IF i > Len(list) THEN <<>>
    ELSE <<[word |-> word, translation |-> list[i].path,
            pos |-> list[i].payload, article_index |-> list[i].article_num,
            set |-> TRUE]>> \o VariantRecords(word, list, i + 1)

WalkRecordsWord(buf, r, acc) ==
    IF r.tag # "Ok" \/ ~r.some THEN acc
    ELSE WalkRecords(buf, r.walker,
                     acc \o VariantRecords(r.word,
                                           VariantsFrom(buf, r.pos, <<>>).list,
                                           1))

WalkRecords(buf, walker, acc) == WalkRecordsWord(buf, walker_next(buf, walker), acc)

HasPrefix(w, prefix) ==
    Len(w) >= Len(prefix) /\ SubSeq(w, 1, Len(prefix)) = prefix

\* the records of the whole dictionary whose word starts with the prefix
Below(all, prefix) == SelectSeq(all, LAMBDA e : HasPrefix(e.word, prefix))

Filled(f, expected) ==
    /\ f.tag = "Ok"
    /\ f.ret = Min(Len(f.results), Len(expected))
    /\ \A k \in 1..Len(f.results) :
           f.results[k] = IF k <= f.ret THEN expected[k] ELSE Null

(***************************************************************************)
(* C14  Prefix search: search returns a count between 0 and the capacity   *)
(* of the array and fills exactly the first count slots, with the first    *)
(* count (word, variant) records in walker order below the prefix: the     *)
(* variants of a word in stored order before the next word, each word the  *)
(* prefix followed by the walker's suffix; a prefix the trie does not hold *)
(* returns 0.                                                              *)
(***************************************************************************)
C14_PrefixSearch ==
    /\ finder.result_num <= Len(finder.results)
    /\ \A k \in 1..Len(finder.results) :
           k > finder.result_num => finder.results[k] = Null
    /\ finder.pc = "done" =>
           Filled(finder,
                  Below(WalkRecords(finder.dictionary, DictionaryWalkerNew, <<>>),
                        finder.prefix))

\* a search below "j" has ended with the array full before the four
\* variants of "j" did: the first three of them fill it, in stored order
C14_Witness ==
    /\ finder.pc = "done"
    /\ finder.ret = 3
    /\ finder.prefix = <<106>>
    /\ finder.results[1].translation = <<97>>
    /\ finder.results[2].translation = <<223>>
    /\ finder.results[3].translation = <<105>>

(***************************************************************************)
(* The writer fed values as they come: add_bits is given the whole u32,    *)
(* with bits set above the width, as the tests of bit_writer.rs give it.   *)
(***************************************************************************)
\* (value, width), the value as it is
RawInputs == { [bits |-> v, n_bits |-> n] : v \in TestValues, n \in Widths }

RawNext ==
    \/ \E in \in RawInputs : BitAdd(in)
    \/ BitDone
    \/ BitRead

SpecRaw == BitInit /\ [][RawNext]_vars

\* the writer after add_bits of the low n_bits of each value of ws from i on
RECURSIVE AddLowBits(_, _, _, _)
AddLowBits(w, ws, i, checks) ==
    IF i > Len(ws) THEN w
    ELSE AddLowBits(add_bits(w, U32Low(ws[i].bits, ws[i].n_bits),
                             ws[i].n_bits, checks),
                    ws, i + 1, checks)

\* the bits the calls of ws total
RECURSIVE TotalBits(_, _)
TotalBits(ws, i) ==
    IF i > Len(ws) THEN 0 ELSE ws[i].n_bits + TotalBits(ws, i + 1)

SameBytes(w, low) ==
    /\ w.panicked = low.panicked
    /\ w.output = (IF bitPhase = "read" THEN done(low) ELSE low).output

(***************************************************************************)
(* C15  add_bits appends only the low n_bits of bits: the bytes written    *)
(* by a sequence of calls, with any number of bits pending and any u32 as  *)
(* bits, are those written when every value is first reduced mod 2^n_bits. *)
(***************************************************************************)
C15_LowBitsOnly ==
    SameBytes(writer,
              AddLowBits(BitWriterNew(<<>>), writes, 1, overflow_checks))

ByteCount(out, total) ==
    IF bitPhase = "write" THEN Len(out) = total \div 8
    ELSE /\ Len(out) = (total + 7) \div 8
         /\ total % 8 # 0 => out[Len(out)] < 2 ^ (total % 8)

(***************************************************************************)
(* C16  Writer byte count: after add_bits calls totalling T bits and       *)
(* done(), exactly ceil(T/8) bytes are written; done() writes a last       *)
(* partial byte if and only if T is not a multiple of 8 (floor(T/8) bytes  *)
(* are written before it), and the unused high bits of that byte are zero. *)
(***************************************************************************)
C16_ByteCount == ByteCount(writer.output, TotalBits(writes, 1))

(***************************************************************************)
(* The reader on its own: a BitReader over a slice of bytes is asked for   *)
(* bits, of any width up to 32, until the slice is exhausted and after.    *)
(***************************************************************************)
\* the most bytes of a slice
MaxSlice == 5

\* the most read_bits calls on one reader
MaxReads == 3

\* the bytes the tests read (bit_reader.rs, magic of bytes_in_the_middle)
Magic == << 18, 52, 86, 120, 154, 188, 222, 3 >>

\* the first bytes of magic, and as many bytes 0xff
Slices ==
    { SubSeq(Magic, 1, n) : n \in 0..MaxSlice }
        \cup { [i \in 1..n |-> 255] : n \in 0..MaxSlice }

ReadWidths == { 0, 1, 4, 8, 12, 31, 32 }

ReaderInit ==
    /\ overflow_checks = TRUE
    /\ HeaderIdle
    /\ writer = BitWriterNew(<<>>)
    /\ writes = <<>>
    /\ bitPhase = "read"
    /\ \E slice \in Slices : reader = BitReaderNew(slice)
    /\ reads = <<>>
    /\ TrieIdle
    /\ BuildIdle
    /\ SearchIdle
    /\ TransIdle

\* a read_bits call, with the reader it met and the reader it left
ReadLogged(n_bits, got) ==
    [some |-> got.value.some, value |-> got.value.value, n_bits |-> n_bits,
     before |-> reader, after |-> got.reader]

ReadBits(n_bits) ==
    /\ bitPhase = "read"
    /\ Len(reads) < MaxReads
    /\ reader' = read_bits(reader, n_bits).reader
    /\ reads' = Append(reads, ReadLogged(n_bits, read_bits(reader, n_bits)))
    /\ UNCHANGED <<overflow_checks, headerVars, buildVars, searchVars, writer, writes, bitPhase, trieVars, transVars>>

ReaderNext == \E n_bits \in ReadWidths : ReadBits(n_bits)

SpecReader == ReaderInit /\ [][ReaderNext]_vars

\* the bits a reader has not returned: those queued and the unread bytes
Remaining(r) == r.queue_length + 8 * (Len(r.slice) - r.bytes_consumed)

\* bit k of the stream, counted from 0, least significant bit of a byte first
StreamBit(slice, k) == (slice[(k \div 8) + 1] \div (2 ^ (k % 8))) % 2

\* the n bits of the stream from the position of the reader, as a u32
NextBits(r, n) ==
    [i \in 1..32 |->
        IF i <= n
        THEN StreamBit(r.slice, 8 * r.bytes_consumed - r.queue_length + i - 1)
        ELSE 0]

ReadAsSpecified(e, left) ==
    /\ e.some <=> left >= e.n_bits
    /\ e.some => /\ e.value = NextBits(e.before, e.n_bits)
                 /\ Remaining(e.after) = left - e.n_bits
                 /\ e.after.slice = e.before.slice
    /\ e.n_bits = 0 => e.some /\ e.value = U32Zero /\ e.after = e.before

(***************************************************************************)
(* C17  read_bits(n) returns none exactly when fewer than n bits remain    *)
(* unread (the queued bits plus 8 times the unread bytes); otherwise it    *)
(* returns the next n bits of the stream, least significant first, and     *)
(* consumes exactly n bits; a read of 0 bits succeeds with value 0 and     *)
(* consumes nothing.                                                       *)
(***************************************************************************)
C17_ReadBits ==
    \A i \in 1..Len(reads) :
        ReadAsSpecified(reads[i], Remaining(reads[i].before))

\* a read that started in the middle of a byte and crossed into the next
\* has succeeded, and the read after it has found too few bits left
C17_Witness ==
    \E i \in 1..(Len(reads) - 1) :
        /\ reads[i].some
        /\ reads[i].before.queue_length > 0
        /\ reads[i].n_bits = 12
        /\ reads[i].value # U32Low(U32FromLeBytes(<<255, 255, 0, 0>>), 12)
        /\ ~reads[i + 1].some
        /\ Remaining(reads[i + 1].before) > 0

AllSome(rs) == \A i \in 1..Len(rs) : rs[i].some

Consumed(r, total) ==
    /\ bytes_consumed(r) = (total + 7) \div 8
    /\ bytes_consumed(r) <= Len(r.slice)

(***************************************************************************)
(* C18  After read_bits calls that all succeeded and total T bits,         *)
(* bytes_consumed() is ceil(T/8): a byte some of whose bits were taken     *)
(* counts as consumed; the value never exceeds the length of the slice.    *)
(***************************************************************************)
C18_BytesConsumed ==
    /\ bytes_consumed(reader) <= Len(reader.slice)
    /\ (bitPhase = "read" /\ writes = <<>> /\ AllSome(reads))
           => Consumed(reader, TotalBits(reads, 1))

\* successful reads have left some bits of the last byte read in the queue
C18_Witness ==
    /\ writes = <<>>
    /\ Len(reads) >= 2
    /\ AllSome(reads)
    /\ TotalBits(reads, 1) % 8 # 0
    /\ TotalBits(reads, 1) > 8
    /\ reader.queue_length > 0

(***************************************************************************)
(* The transliterator given a dictionary that is not well formed.          *)
(***************************************************************************)
\* "a" to "b", then the node of "b" with two of the three bytes of its
\* variant: the buffer ends there
TruncatedDictionary ==
    << 0, 0, 0, 0,
       7, 97, 0, 0, 0, 0, 0, 1,
       0, 98, 0, 0, 0, 0 >>

\* "a" to "a" and "b" to "b"; the terminator below "b" has a sibling offset
\* of 100, past the end of the buffer
OffsetDictionary ==
    << 0, 0, 0, 0,
       7, 97, 0, 0, 0, 0, 0, 0,
       0, 98, 100, 0, 0, 0, 0, 1 >>

BrokenDictionaries == { TruncatedDictionary, OffsetDictionary }

\* "a", "b", " "
BrokenAlphabet == { 97, 98, 32 }

BrokenInputs == UNION { [1..n -> BrokenAlphabet] : n \in 0..MaxInput }

BrokenInit ==
    /\ overflow_checks = TRUE
    /\ HeaderIdle
    /\ BitIdle
    /\ TrieIdle
    /\ BuildIdle
    /\ SearchIdle
    /\ pair_priorities = PairPriorities({})
    /\ \E dict \in BrokenDictionaries, input \in BrokenInputs :
           tr = TransliteraterNew(dict, input)
    /\ resolved = <<>>

SpecBroken == BrokenInit /\ [][TransNext]_vars

\* dictionary::Error
FormatErrors ==
    { "UnexpectedEof", "InvalidLengthHeader", "OffsetTooLong",
      "InvalidCharacter", "ChildIndexOutOfRange" }

IsPrefix(a, b) == Len(a) <= Len(b) /\ SubSeq(b, 1, Len(a)) = a

(***************************************************************************)
(* C19  Error propagation with partial output: when resolving a word       *)
(* meets an error of the dictionary's format, the run ends there and       *)
(* returns that error (one of dictionary::Error); what was written for the *)
(* input before the word is still in the output, in order, and nothing is  *)
(* written after the error.                                                *)
(***************************************************************************)
C19_ErrorPropagation ==
    /\ [](tr.tag # "Ok" => tr.tag \in FormatErrors /\ tr.pc = "done")
    /\ [][/\ IsPrefix(tr.output, tr'.output)
          /\ tr.tag # "Ok" => tr'.output = tr.output]_vars

(***************************************************************************)
(* The compiler's main (compiledb.rs): the ReadLex map is loaded, the trie *)
(* is built from every entry, and the articles are written when a          *)
(* directory for them is given.  An entry is modelled by its pos and var   *)
(* fields; the files are modelled by whether they were written.            *)
(***************************************************************************)
\* the most keys of the map
MaxKeys == 2

\* parts_of_speech::NAMES
NAMES ==
    << "AJ0", "AJC", "AJS", "AT0", "AV0", "AVP", "AVQ", "CJC", "CJS",
       "CJT", "CRD", "DPS", "DT0", "DTQ", "EX0", "ITJ", "NN0", "NN1",
       "NN2", "NP0", "ORD", "PNI", "PNP", "PNQ", "PNX", "POS", "PRE",
       "PRF", "PRP", "TO0", "UNC", "VM0", "VVB", "VVD", "VVG", "VVN",
       "VVZ", "XX0", "ZZ0" >>

PARTS_OF_SPEECH_REMAP ==
    { <<"P0", "NP0">>,
      <<"VBB", "VVB">>, <<"VBD", "VVD">>, <<"VBG", "VVG">>, <<"VBI", "VVB">>,
      <<"VBN", "VVN">>, <<"VBZ", "VVZ">>, <<"VDB", "VVB">>, <<"VDD", "VVD">>,
      <<"VDG", "VVG">>, <<"VDI", "VVB">>, <<"VDN", "VVN">>, <<"VDZ", "VVZ">>,
      <<"VHB", "VVB">>, <<"VHD", "VVD">>, <<"VHG", "VVG">>, <<"VHI", "VVB">>,
      <<"VHN", "VVN">>, <<"VHZ", "VVZ">>, <<"VVI", "VVB">> }

VARIATIONS == << "GenAm", "GenAus", "RRP", "RRPVar", "SSB", "TrapBath" >>

\* binary_search of a sorted table of distinct strings: [some, index]
BinarySearch(table, key) ==
    IF \E i \in 1..Len(table) : table[i] = key
    THEN [some |-> TRUE,
          index |-> (CHOOSE i \in 1..Len(table) : table[i] = key) - 1]
    ELSE [some |-> FALSE, index |-> 0]

\* lines 177-179: the tag the remap table gives, or the tag itself
Remapped(first_pos) ==
    IF \E m \in PARTS_OF_SPEECH_REMAP : m[1] = first_pos
    THEN (CHOOSE m \in PARTS_OF_SPEECH_REMAP : m[1] = first_pos)[2]
    ELSE first_pos

\* remap_pos of one tag of a list split at "+": Option<u8> as [some, index]
remap_pos(pos) == BinarySearch(NAMES, Remapped(pos))

\* lookup_pos of a pos field, given as the tags between its "+":
\* Option<Vec<u8>> as [some, value]
RECURSIVE LookupPosFrom(_, _, _)
LookupPosFrom(tags, i, result) ==
    IF i > Len(tags) THEN [some |-> TRUE, value |-> result]
    ELSE IF ~remap_pos(tags[i]).some THEN [some |-> FALSE, value |-> <<>>]
    ELSE LookupPosFrom(tags, i + 1, Append(result, remap_pos(tags[i]).index))

lookup_pos(tags) == LookupPosFrom(tags, 1, <<>>)

\* lookup_var: io::Result<u8> as [ok, value]
lookup_var(var) ==
    [ok |-> BinarySearch(VARIATIONS, var).some,
     value |-> BinarySearch(VARIATIONS, var).index]

\* FilteredEntry::matches: every field of the entry but freq, with the pos
\* looked up
Matches(old, entry, pos) == old = [entry EXCEPT !.pos = pos]

\* filter_entries: Result<Vec<FilteredEntry>, ()> as [ok, entries]
RECURSIVE FilterFrom(_, _, _)
FilterLooked(entries_in, i, out, pos) ==
    IF ~pos.some THEN [ok |-> FALSE, entries |-> <<>>]
    ELSE IF \E k \in 1..Len(out) : Matches(out[k], entries_in[i], pos.value)
    THEN FilterFrom(entries_in, i + 1, out)
    ELSE FilterFrom(entries_in, i + 1,
                    Append(out, [entries_in[i] EXCEPT !.pos = pos.value]))

FilterFrom(entries_in, i, out) ==
    IF i > Len(entries_in) THEN [ok |-> TRUE, entries |-> out]
    ELSE FilterLooked(entries_in, i, out, lookup_pos(entries_in[i].pos))

filter_entries(entries_in) == FilterFrom(entries_in, 1, <<>>)

\* build_trie: Err(()) at the first key whose entries filter_entries
\* rejects, Ok(()) with the dictionary written otherwise
build_trie(map) == \A k \in 1..Len(map) : filter_entries(map[k]).ok

\* combine_variants: "Ok", "Err" (an unknown variation), or "Panic" (the
\* unwrap of line 298 on an Err of filter_entries)
CombineFiltered(filtered) ==
    IF ~filtered.ok THEN "Panic"
    ELSE IF \A k \in 1..Len(filtered.entries) :
                lookup_var(filtered.entries[k].var).ok
    THEN "Ok"
    ELSE "Err"

combine_variants(article) == CombineFiltered(filter_entries(article))

\* build_articles: the outcome of the first article that is not written
RECURSIVE build_articles(_, _)
build_articles(map, k) ==
    IF k > Len(map) THEN "Ok"
    ELSE IF combine_variants(map[k]) # "Ok" THEN combine_variants(map[k])
    ELSE build_articles(map, k + 1)

\* the pos fields of the inputs: a tag of the table, one the remap table
\* maps into it, one it does not know, and a list whose second tag is
\* unknown
PosFields == { <<"NN1">>, <<"VBB">>, <<"XYZ">>, <<"NN1", "XYZ">> }

\* a label of the table and one outside it
VarFields == { "RRP", "Bogus" }

Entries == { [pos |-> p, var |-> v] : p \in PosFields, v \in VarFields }

\* the articles: one entry, or an entry of the tables followed by another
Articles ==
    { <<e>> : e \in Entries }
        \cup { <<[pos |-> <<"NN1">>, var |-> "RRP"], e>> : e \in Entries }

\* the map, as its articles in the order of the sorted keys
Maps == UNION { [1..n -> Articles] : n \in 0..MaxKeys }

BuildInit ==
    /\ overflow_checks = TRUE
    /\ HeaderIdle
    /\ BitIdle
    /\ TrieIdle
    /\ SearchIdle
    /\ TransIdle
    /\ \E map \in Maps, article_dir \in BOOLEAN :
           build = [map |-> map, article_dir |-> article_dir, pc |-> "trie",
                    dictionary_written |-> FALSE, exit |-> "none"]

\* main, lines 410-412: build_trie, and the exit it leads to
BuildTrie ==
    /\ build.pc = "trie"
    /\ build' =
           IF ~build_trie(build.map)
           THEN [build EXCEPT !.pc = "exit", !.exit = "FAILURE"]
           ELSE IF build.article_dir
           THEN [build EXCEPT !.pc = "articles", !.dictionary_written = TRUE]
           ELSE [build EXCEPT !.pc = "exit", !.dictionary_written = TRUE,
                              !.exit = "SUCCESS"]
    /\ UNCHANGED <<overflow_checks, headerVars, bitVars, trieVars, transVars, searchVars>>

\* main, lines 414-420: build_articles, and the exit it leads to
BuildArticles ==
    /\ build.pc = "articles"
    /\ build' = [build EXCEPT
                    !.pc = "exit",
                    !.exit = IF build_articles(build.map, 1) = "Ok"
                             THEN "SUCCESS"
                             ELSE IF build_articles(build.map, 1) = "Err"
                             THEN "FAILURE"
                             ELSE "Panic"]
    /\ UNCHANGED <<overflow_checks, headerVars, bitVars, trieVars, transVars, searchVars>>

BuildNext == BuildTrie \/ BuildArticles

SpecBuild == BuildInit /\ [][BuildNext]_vars

UnknownPos(map) ==
    \E k \in 1..Len(map) : \E i \in 1..Len(map[k]) :
        \E t \in 1..Len(map[k][i].pos) :
            Remapped(map[k][i].pos[t]) \notin { NAMES[n] : n \in 1..Len(NAMES) }

UnknownVar(map) ==
    \E k \in 1..Len(map) : \E i \in 1..Len(map[k]) :
        map[k][i].var \notin { VARIATIONS[n] : n \in 1..Len(VARIATIONS) }

(***************************************************************************)
(* C20  Fatal ingest errors: a build whose input holds an entry with a     *)
(* part of speech unknown after remapping, or with a variation label       *)
(* outside the table of six, ends with a nonzero exit code, with or        *)
(* without an article directory.                                           *)
(***************************************************************************)
C20_FatalIngest ==
    (build.pc = "exit" /\ (UnknownPos(build.map) \/ UnknownVar(build.map)))
        => build.exit # "SUCCESS"

(***************************************************************************)
(* The transliterator on hyphenated words whose parts have several         *)
(* variants: the table of pair priorities decides between them after a     *)
(* known part of speech.                                                   *)
(***************************************************************************)
\* "j", "x", "-", " "
HyphenAlphabet == { 106, 120, 45, 32 }

HyphenInputs == UNION { [1..n -> HyphenAlphabet] : n \in 0..MaxInput }

HyphenInit ==
    /\ overflow_checks = TRUE
    /\ HeaderIdle
    /\ BitIdle
    /\ TrieIdle
    /\ BuildIdle
    /\ SearchIdle
    /\ pair_priorities \in PairPriorityTables
    /\ \E dict \in Dictionaries, input \in HyphenInputs :
           tr = TransliteraterNew(dict, input)
    /\ resolved = <<>>

SpecHyphen == HyphenInit /\ [][TransNext]_vars

\* the POS context a resolved word or part leaves
ContextAfter(e) == IF e.found THEN SomePos(e.payload) ELSE NoPos

\* the records es of one flush met the context before and left after
ContextThreaded(es, before, after) ==
    /\ es[1].before = before
    /\ \A k \in 1..(Len(es) - 1) : es[k + 1].before = ContextAfter(es[k])
    /\ after = ContextAfter(es[Len(es)])
    /\ \A k \in 1..Len(es) :
           es[k].found => es[k].payload = tr.dictionary[es[k].chosen + 1] % 128

(***************************************************************************)
(* C27  POS context update: after every resolved word or hyphen part the   *)
(* POS context is the part of speech of the variant chosen and written if  *)
(* it was found, and unknown if it was not; the next word or part meets    *)
(* that context.                                                           *)
(***************************************************************************)
C27_PosContext ==
    [][resolved' # resolved =>
           ContextThreaded(SubSeq(resolved', Len(resolved) + 1, Len(resolved')),
                           tr.last_pos, tr'.last_pos)]_vars

\* a part that was not found was followed, in the same word, by a part that
\* was: the second met no context and left its part of speech
C27_Witness ==
    \E i \in 1..(Len(resolved) - 1) :
        /\ resolved[i].at = resolved[i + 1].at
        /\ ~resolved[i].found
        /\ resolved[i + 1].found
        /\ resolved[i + 1].before = NoPos
        /\ tr.last_pos = SomePos(resolved[i + 1].payload)

\* the parts after the first of one flush met no context and were resolved
\* as their first stored variant
PartsCleared(es) ==
    \A k \in 2..Len(es) :
        /\ es[k].before = NoPos
        /\ es[k].found => es[k].chosen = es[k].variant_pos

(***************************************************************************)
(* C28  Hyphen fallback context: while the parts of a hyphenated word are  *)
(* translated the POS context is cleared after each "-", so every part     *)
(* that follows a "-" is resolved with its first stored variant and is     *)
(* never capitalised as the start of a sentence.                           *)
(***************************************************************************)
C28_HyphenContext ==
    [][resolved' # resolved =>
           PartsCleared(SubSeq(resolved', Len(resolved) + 1, Len(resolved')))]_vars

(***************************************************************************)
(* The tokens of an input, read off the input alone.                       *)
(***************************************************************************)
\* character p of the input belongs to a word: it is alphabetic, or one of
\* "'", "-", U+2019 between a character of a word and an alphabetic one
RECURSIVE InWordAt(_, _)
InWordAt(input, p) ==
    \/ is_alphabetic(input[p])
    \/ /\ input[p] \in {39, 45, 8217}
       /\ p > 1
       /\ p < Len(input)
       /\ is_alphabetic(input[p + 1])
       /\ InWordAt(input, p - 1)

WordEndsAt(input, p) ==
    InWordAt(input, p) /\ (p = Len(input) \/ ~InWordAt(input, p + 1))

\* the word that ends at character p, as the buffer holds it
RECURSIVE WordUpTo(_, _)
WordUpTo(input, p) ==
    IF p = 0 \/ ~InWordAt(input, p) THEN <<>>
    ELSE WordUpTo(input, p - 1)
             \o (IF is_alphabetic(input[p]) THEN to_lowercase(input[p])
                 ELSE IF input[p] = 8217 THEN <<39>>
                 ELSE <<input[p]>>)

\* the records of the flush of the word that ends at character p
FlushOf(log, input, p) ==
    SelectSeq(log, LAMBDA e : e.at = (IF p = Len(input) THEN p + 1 ELSE p + 2))

\* the output of the tokens of the input from character p on
RECURSIVE TokensOutput(_, _, _)
TokensOutput(log, input, p) ==
    IF p > Len(input) THEN <<>>
    ELSE (IF ~InWordAt(input, p) THEN <<input[p]>>
          ELSE IF WordEndsAt(input, p)
          THEN JoinWritten(FlushOf(log, input, p), 1)
          ELSE <<>>) \o TokensOutput(log, input, p + 1)

\* every word of the input was flushed once, as the word the buffer held,
\* and nothing else was
WordsFlushed(log, input) ==
    /\ \A p \in 1..Len(input) :
           WordEndsAt(input, p)
               => /\ FlushOf(log, input, p) # <<>>
                  /\ JoinWords(FlushOf(log, input, p), 1) = WordUpTo(input, p)
    /\ \A i \in 1..Len(log) :
           \E p \in 1..Len(input) :
               /\ WordEndsAt(input, p)
               /\ log[i].at = (IF p = Len(input) THEN p + 1 ELSE p + 2)
    /\ \A i \in 1..(Len(log) - 1) : log[i].at <= log[i + 1].at

(***************************************************************************)
(* C30  Output ordering: the output of a run is the concatenation, in the  *)
(* order of the input, of the outputs of its tokens: a character that is   *)
(* not part of a word is written unchanged once, the output of a word      *)
(* comes whole before the character that ended it, and the last word is    *)
(* flushed at the end of the input; no word or delimiter is dropped,       *)
(* duplicated or reordered.                                                *)
(***************************************************************************)
C30_OutputOrder ==
    tr.pc = "done" =>
        /\ tr.tag = "Ok"
        /\ tr.buf = <<>>
        /\ WordsFlushed(resolved, tr.input)
        /\ tr.output = TokensOutput(resolved, tr.input, 1)

\* a run has ended on a word, flushed at the end of the input, after
\* another word and the two characters that followed it
C30_Witness ==
    /\ tr.pc = "done"
    /\ Len(tr.input) = 4
    /\ Len(resolved) = 2
    /\ resolved[1].at = 3
    /\ resolved[2].at = 5
    /\ Len(tr.output) >= 4

(***************************************************************************)
(* The reader over buffers no builder wrote: every buffer cut from one of  *)
(* the dictionaries above, whole or short of its end.                      *)
(***************************************************************************)
Truncations(buf) == { SubSeq(buf, 1, n) : n \in 0..Len(buf) }

RobustBuffers ==
    Truncations(TestDictionary) \cup Truncations(OffsetDictionary)

\* "a", "b", "ab" and the empty word
RobustWords == { <<97>>, <<98>>, <<97, 98>>, <<>> }

\* a buffer handed to the reader as it is (the buf of find_word)
Loaded(buf) ==
    [built |-> TRUE, nodes |-> <<>>, bytes |-> buf, at |-> <<>>,
     panicked |-> FALSE]

RobustInit ==
    /\ overflow_checks = TRUE
    /\ HeaderIdle
    /\ BitIdle
    /\ nodes = TrieBuilderNew
    /\ calls = <<>>
    /\ \E buf \in RobustBuffers : dictionary = Loaded(buf)
    /\ query = NoQuery
    /\ BuildIdle
    /\ SearchIdle
    /\ TransIdle

RobustNext ==
    \/ \E w \in RobustWords : FindWord(w)
    \/ CheckLength
    \/ WalkerNew
    \/ WalkerNext

SpecRobust == RobustInit /\ [][RobustNext]_vars

(***************************************************************************)
(* C29  Reader robustness: on every buffer, malformed and truncated ones   *)
(* included, each operation of the reader ends with a value or with one of *)
(* the errors of the dictionary's format; none reads outside the buffer or *)
(* aborts, even when a sibling offset points past the end of the buffer.   *)
(***************************************************************************)
C29_ReaderRobust ==
    /\ query.tag \in { "Ok" } \cup FormatErrors
    /\ \A i \in 1..Len(query.variants) :
           query.variants[i].path_tag \in { "Ok" } \cup FormatErrors

(***************************************************************************)
(* The variants of a word, taken one at a time: extract_variant at the     *)
(* position find_word or into_next_offset returned, the characters of the  *)
(* path read one by one, and into_next_offset after any number of them.    *)
(***************************************************************************)
\* a dictionary of the reader's format with the keys "a", "aa", ... up to
\* ten letters, each to itself as article 1..10; "a" has a first variant to
\* the ten-letter key.  Every key but the longest has the children '\0' and
\* 'a', so the path to a key of m < 10 letters takes m bits and the path to
\* the longest takes 9
DeepDictionary ==
    << 87, 0, 0, 0,
       0, 97, 10, 0, 150, 0, 0, 255, 1, 22, 1, 0, 0,
       0, 97, 5, 0, 22, 2, 0, 1,
       0, 97, 5, 0, 22, 3, 0, 3,
       0, 97, 5, 0, 22, 4, 0, 7,
       0, 97, 5, 0, 22, 5, 0, 15,
       0, 97, 5, 0, 22, 6, 0, 31,
       0, 97, 5, 0, 22, 7, 0, 63,
       0, 97, 5, 0, 22, 8, 0, 127,
       0, 97, 6, 0, 22, 9, 0, 255, 0,
       0, 97, 0, 0, 22, 10, 0, 255, 1 >>

\* the one key "a" with two variants to itself: no node has a second
\* child, so the paths take no bit and no byte
SingleDictionary ==
    << 10, 0, 0, 0,
       0, 97, 0, 0, 150, 0, 0, 22, 1, 0 >>

ChainDictionaries ==
    { DeepDictionary, SingleDictionary, VariantDictionary, TestDictionary }

\* "a", "j", "ij", and the keys of nine and ten letters
ChainWords ==
    { <<97>>, <<106>>, <<105, 106>>,
      <<97, 97, 97, 97, 97, 97, 97, 97, 97>>,
      <<97, 97, 97, 97, 97, 97, 97, 97, 97, 97>> }

ChainInit ==
    /\ overflow_checks = TRUE
    /\ HeaderIdle
    /\ BitIdle
    /\ nodes = TrieBuilderNew
    /\ calls = <<>>
    /\ \E buf \in ChainDictionaries : dictionary = Loaded(buf)
    /\ query = NoQuery
    /\ BuildIdle
    /\ SearchIdle
    /\ TransIdle

\* extract_variant at the position the call before returned
Extracted(q, v) ==
    [NoQuery EXCEPT !.kind = "variant", !.word = q.word, !.tag = v.tag,
                    !.pos = q.pos, !.variant = v]

ExtractVariant ==
    /\ query.kind \in { "find", "next" }
    /\ query.tag = "Ok"
    /\ query.some
    /\ query' = Extracted(query, extract_variant(dictionary.bytes, query.pos))
    /\ UNCHANGED <<overflow_checks, headerVars, buildVars, searchVars, nodes, calls, dictionary, bitVars, transVars>>

\* the variant after a call of next on its translation
PathRead(q, step) ==
    [q EXCEPT !.variant.translation = step.walker,
              !.tag = step.tag,
              !.read = IF step.tag = "Ok" /\ step.some
                       THEN Append(@, step.ch) ELSE @,
              !.done = (step.tag # "Ok" \/ ~step.some)]

\* PathWalker::next on the translation of the variant
PathNext ==
    /\ query.kind = "variant"
    /\ query.tag = "Ok"
    /\ ~query.done
    /\ query' = PathRead(query,
                         next_char(dictionary.bytes, query.variant.translation))
    /\ UNCHANGED <<overflow_checks, headerVars, buildVars, searchVars, nodes, calls, dictionary, bitVars, transVars>>

\* the query after into_next_offset consumed the variant
Chained(q, r) ==
    [q EXCEPT !.kind = "next", !.tag = r.tag, !.some = r.some, !.pos = r.pos]

\* Variant::into_next_offset
IntoNextOffset ==
    /\ query.kind = "variant"
    /\ query.tag = "Ok"
    /\ query' = Chained(query, into_next_offset(dictionary.bytes, query.variant))
    /\ UNCHANGED <<overflow_checks, headerVars, buildVars, searchVars, nodes, calls, dictionary, bitVars, transVars>>

ChainNext ==
    \/ \E w \in ChainWords : FindWord(w)
    \/ ExtractVariant
    \/ PathNext
    \/ IntoNextOffset

SpecChain == ChainInit /\ [][ChainNext]_vars

\* the value of the k bits of the path at pos from its bit `from`, least
\* significant first
RECURSIVE BitsValue(_, _, _, _)
BitsValue(buf, pos, from, k) ==
    IF k = 0 THEN 0
    ELSE StreamBit(SliceFrom(buf, pos), from)
             + 2 * BitsValue(buf, pos, from + 1, k - 1)

\* the bits of the path stored at pos, counted by following it from the
\* children of the root: at each node the bit length of (children - 1)
RECURSIVE PathBitsAt(_, _, _, _)
PathBitsChar(buf, pos, bits, at, c) ==
    IF c.ch = 0 THEN bits
    ELSE PathBitsAt(buf, pos, at + c.utf8_len, bits)

PathBitsNode(buf, pos, bits, child, so) ==
    PathBitsChar(buf, pos, bits, child + so.len,
                 read_character(SliceFrom(buf, child + so.len)))

PathBitsChild(buf, pos, bits, child) ==
    PathBitsNode(buf, pos, bits, child,
                 read_sibling_offset(SliceFrom(buf, child)))

PathBitsIndex(buf, pos, node_pos, bits, k, index) ==
    PathBitsChild(buf, pos, bits + k,
                  node_pos + skip_nodes(SliceFrom(buf, node_pos), index).pos)

PathBitsWidth(buf, pos, node_pos, bits, k) ==
    PathBitsIndex(buf, pos, node_pos, bits, k, BitsValue(buf, pos, bits, k))

PathBitsAt(buf, pos, node_pos, bits) ==
    PathBitsWidth(buf, pos, node_pos, bits,
                  BitLength(count_siblings(SliceFrom(buf, node_pos)).count - 1))

PathBits(buf, pos) == PathBitsAt(buf, pos, 4, 0)

\* the continuation flag of the variant at pos
Continues(buf, pos) == buf[pos + 1] >= 128

MaxOffset == 8

\* n as usize, for 0 <= n < 2^31
UsizeFromNat(n) ==
    [i \in 1..UsizeBits |-> IF i <= 31 THEN (n \div (2 ^ (i - 1))) % 2 ELSE 0]

\* 2^k - 1 and 2^k as usize
UsizeOnes(k) == [i \in 1..UsizeBits |-> IF i <= k THEN 1 ELSE 0]

UsizePow(k) == [i \in 1..UsizeBits |-> IF i = k + 1 THEN 1 ELSE 0]

UsizeZero == UsizeOnes(0)

\* x >> k
UsizeShr(x, k) ==
    [i \in 1..UsizeBits |-> IF i + k <= UsizeBits THEN x[i + k] ELSE 0]

\* usize::BITS - x.leading_zeros()
UsizeBitLength(x) ==
    LET RECURSIVE Top(_)
        Top(i) == IF i = 0 THEN 0 ELSE IF x[i] = 1 THEN i ELSE Top(i - 1)
    IN Top(UsizeBits)

\* x as u8 & ((1 << 7) - 1)
UsizeLow7(x) ==
    x[1] + 2 * x[2] + 4 * x[3] + 8 * x[4] + 16 * x[5] + 32 * x[6] + 64 * x[7]

\* the value of x, for x < 2^31
UsizeAsNat(x) ==
    LET RECURSIVE Sum(_)
        Sum(i) == IF i > 31 THEN 0 ELSE x[i] * (2 ^ (i - 1)) + Sum(i + 1)
    IN Sum(1)

\* the sibling offsets around the steps of the encoding's length, up to the
\* largest whose header number fits the word
OffsetEdges ==
    { UsizeOnes(k) : k \in { 6, 13, 20, 27, 31, 62, 63 } }
        \cup { UsizePow(k) : k \in { 6, 13, 20, 27, 31, 62 } }

SiblingOffsets == { UsizeFromNat(n) : n \in 0..MaxOffset } \cup OffsetEdges

\* lines 413-419 of node_data_number: (sibling_offset << 1) | has_child
data_number(sibling_offset, has_child) ==
    [i \in 1..UsizeBits |->
        IF i = 1 THEN (IF has_child THEN 1 ELSE 0) ELSE sibling_offset[i - 1]]

\* n_bytes_for_size without the .max(1) of line 496
n_bytes_for_size_bits(size) == (UsizeBitLength(size) + 6) \div 7

\* n_bytes_for_size on a usize
n_bytes_for_size_usize(size) ==
    (Max(UsizeBitLength(size), 1) + 6) \div 7

\* write_offset on a usize: the bytes written
RECURSIVE write_offset_usize(_)
write_offset_usize(offset) ==
    IF UsizeShr(offset, 7) = UsizeZero THEN <<UsizeLow7(offset)>>
    ELSE <<UsizeLow7(offset) + 128>> \o write_offset_usize(UsizeShr(offset, 7))

HeaderNew(sibling_offset, has_child) ==
    [sibling_offset |-> sibling_offset, has_child |-> has_child,
     number |-> data_number(sibling_offset, has_child),
     sized |-> FALSE, size |-> 0,
     written |-> FALSE, output |-> <<>>,
     parsed |-> FALSE, read |-> Fail("None")]

HeaderInit ==
    /\ overflow_checks = TRUE
    /\ BitIdle
    /\ TrieIdle
    /\ TransIdle
    /\ SearchIdle
    /\ BuildIdle
    /\ \E s \in SiblingOffsets, c \in BOOLEAN : header = HeaderNew(s, c)

\* n_bytes_for_size(node_data_number) (calculate_size, line 298)
NBytesForSize ==
    /\ ~header.sized
    /\ header' = [header EXCEPT !.sized = TRUE,
                                !.size = n_bytes_for_size_usize(header.number)]
    /\ UNCHANGED <<overflow_checks, bitVars, trieVars, transVars, searchVars, buildVars>>

\* write_offset(data_number, output) (write_node, line 448)
WriteOffset ==
    /\ ~header.written
    /\ header' = [header EXCEPT !.written = TRUE,
                                !.output = write_offset_usize(header.number)]
    /\ UNCHANGED <<overflow_checks, bitVars, trieVars, transVars, searchVars, buildVars>>

\* read_sibling_offset on the bytes written
ReadSiblingOffset ==
    /\ header.written
    /\ ~header.parsed
    /\ header' = [header EXCEPT !.parsed = TRUE,
                                !.read = read_sibling_offset(header.output)]
    /\ UNCHANGED <<overflow_checks, bitVars, trieVars, transVars, searchVars, buildVars>>

HeaderNext ==
    \/ NBytesForSize
    \/ WriteOffset
    \/ ReadSiblingOffset

SpecHeader == HeaderInit /\ [][HeaderNext]_vars

\* the smallest k >= 1 with x < 2^(7k): no bit of x at 7k or above
Septets(x) ==
    LET RECURSIVE Least(_)
        Least(k) == IF \A i \in 1..UsizeBits : i > 7 * k => x[i] = 0
                    THEN k ELSE Least(k + 1)
    IN Least(1)

\* x < 2^k
UsizeBelow(x, k) == \A i \in 1..UsizeBits : i > k => x[i] = 0

(***************************************************************************)
(* C23  Variable-length integer size: for every header number x,           *)
(* n_bytes_for_size(x) is the number of bytes write_offset(x) emits: 1 for *)
(* x <= 0x7F, 2 for 0x80 <= x <= 0x3FFF, in general the smallest k >= 1    *)
(* with x < 2^(7k) (5 for x = 2^32 - 1); every emitted byte but the last   *)
(* has its top bit set.  Below 2^31 the functions on natural numbers that  *)
(* the builder's model uses give the same size and the same bytes.         *)
(***************************************************************************)
C23_VarintSize ==
    /\ header.sized =>
           /\ header.size = Septets(header.number)
           /\ UsizeBelow(header.number, 7) => header.size = 1
           /\ (~UsizeBelow(header.number, 7) /\ UsizeBelow(header.number, 14))
                  => header.size = 2
           /\ header.number = UsizeOnes(32) => header.size = 5
           /\ UsizeBelow(header.number, 31)
                  => header.size = n_bytes_for_size(UsizeAsNat(header.number))
    /\ header.written =>
           /\ Len(header.output) = Septets(header.number)
           /\ \A i \in 1..Len(header.output) :
                  (header.output[i] >= 128) <=> (i < Len(header.output))
           /\ UsizeBelow(header.number, 31)
                  => header.output = write_offset(UsizeAsNat(header.number))
    /\ (header.sized /\ header.written) => header.size = Len(header.output)

C23_Witness ==
    /\ header.number = UsizeOnes(32)
    /\ header.sized
    /\ header.size = 5
    /\ header.output = <<255, 255, 255, 255, 15>>

(***************************************************************************)
(* C24  Header number round trip: for every sibling offset s and has-child *)
(* bit c whose header number (s << 1) | c fits the machine word, the bytes *)
(* write_offset emits for it are parsed by the reader's header parser back *)
(* to the sibling offset s and the has-child bit c, consuming exactly the  *)
(* bytes written and without OffsetTooLong.  (The offsets the reader's     *)
(* model keeps exact are those below OffsetCap.)                           *)
(***************************************************************************)
C24_HeaderRoundTrip ==
    header.parsed =>
        /\ header.read.tag = "Ok"
        /\ header.read.len = Len(header.output)
        /\ UsizeBelow(header.number, 30) =>
               header.read.offset = UsizeAsNat(header.sibling_offset)

(***************************************************************************)
(* The reader decoding the paths of a dictionary the builder wrote: the    *)
(* walker of the reader beside the node of the builder it stands for.      *)
(***************************************************************************)
RECURSIVE PathAgrees(_, _, _, _, _, _)
\* the step taken: it yields the next character of the word, or ends where
\* the word ends
PathAgreesStep(buf, ns, node, word, j, step) ==
    /\ step.tag = "Ok"
    /\ IF j > Len(word) THEN ~step.some
       ELSE /\ step.some
            /\ step.ch = word[j]
            /\ PathAgrees(buf, ns, step.walker,
                          FindChild(ns, NodeAt(ns, node).first_child, word[j]),
                          word, j + 1)

\* the children counted by the reader are those of the builder's node
PathAgreesCount(buf, ns, walker, node, word, j, n) ==
    /\ n.tag = "Ok"
    /\ n.count = n_children(ns, node)
    /\ PathAgreesStep(buf, ns, node, word, j, next_char(buf, walker))

PathAgrees(buf, ns, walker, node, word, j) ==
    /\ SliceOk(buf, walker.node_pos)
    /\ PathAgreesCount(buf, ns, walker, node, word, j,
                       count_siblings(SliceFrom(buf, walker.node_pos)))

\* every path of the variants serialised from offset pos on
RECURSIVE PathsAgree(_, _, _)
PathsAgreeNext(pos, variants, i, path) ==
    PathsAgree(pos + 1 + Len(path), variants, i + 1)

PathsAgree(pos, variants, i) ==
    IF i > Len(variants) THEN TRUE
    ELSE /\ PathAgrees(dictionary.bytes, dictionary.nodes,
                       PathWalkerNew(dictionary.bytes, pos + 1),
                       0, variants[i].value, 1)
         /\ PathsAgreeNext(pos, variants, i,
                done(write_path(dictionary.nodes, variants[i].value,
                                BitWriterNew(<<>>), overflow_checks)).output)

(***************************************************************************)
(* C25  Path encoder/decoder agreement: at every step of decoding any path *)
(* stored in a built dictionary, the children the reader counts at the     *)
(* current node (count_siblings) are as many as the node had in the        *)
(* builder when the path was encoded, so both sides use the same bit       *)
(* width, and the decoded sibling index is below that number.              *)
(***************************************************************************)
C25_PathAgreement ==
    (dictionary.built /\ ~dictionary.panicked) =>
        \A k \in Keys :
            PathsAgree(DataAt(TerminatorOf(dictionary.nodes, k)),
                       VariantsOfKey(k, 1), 1)

(***************************************************************************)
(* The numbering of the articles (compiledb.rs): build_trie passes the     *)
(* rank of each key to add_word as a u16, build_articles writes the        *)
(* articles of the sorted keys in chunks of ARTICLES_PER_FILE, one file a  *)
(* chunk.  A key is its rank here; what an article holds is below.         *)
(***************************************************************************)
ARTICLES_PER_FILE == 128

\* a map with more keys than a u16 counts
ManyKeys == 65537

\* the numbers of keys of the maps: none to a little over two files, and
\* around 2^16
KeyCounts ==
    0..(2 * ARTICLES_PER_FILE + MaxKeys) \cup { ManyKeys - 1, ManyKeys }

\* {:x} of format!
HexChars ==
    << "0", "1", "2", "3", "4", "5", "6", "7",
       "8", "9", "a", "b", "c", "d", "e", "f" >>

RECURSIVE LowerHex(_)
LowerHex(v) ==
    IF v < 16 THEN <<HexChars[v + 1]>>
    ELSE Append(LowerHex(v \div 16), HexChars[(v % 16) + 1])

\* the zero padding of {:04x}: to four characters at least
RECURSIVE ZeroPad4(_)
ZeroPad4(digits) ==
    IF Len(digits) >= 4 THEN digits ELSE ZeroPad4(<<"0">> \o digits)

\* format!("article-{:04x}.bin", v)
ArticleFileName(v) == <<"article-">> \o ZeroPad4(LowerHex(v)) \o <<".bin">>

\* article_num as u16, for the key of each rank (the rank of item i is
\* i - 1)
ArticleNums(n) == [i \in 1..n |-> (i - 1) % (2 ^ 16)]

\* keys.chunks(ARTICLES_PER_FILE).enumerate(): the file of each chunk, the
\* rank of its first key and the articles written to it
ChunkFiles(n) ==
    [c \in 1..((n + ARTICLES_PER_FILE - 1) \div ARTICLES_PER_FILE) |->
        [name |-> ArticleFileName((c - 1) * ARTICLES_PER_FILE),
         first |-> (c - 1) * ARTICLES_PER_FILE,
         count |-> Min(ARTICLES_PER_FILE, n - (c - 1) * ARTICLES_PER_FILE)]]

ChunksInit ==
    /\ overflow_checks = TRUE
    /\ HeaderIdle
    /\ BitIdle
    /\ TrieIdle
    /\ SearchIdle
    /\ TransIdle
    /\ \E n \in KeyCounts :
           build = [keys |-> n, pc |-> "trie", article_nums |-> <<>>,
                    files |-> <<>>]

\* build_trie: the add_word calls of the keys in order
NumberKeys ==
    /\ build.pc = "trie"
    /\ build' = [build EXCEPT !.pc = "articles",
                              !.article_nums = ArticleNums(build.keys)]
    /\ UNCHANGED <<overflow_checks, headerVars, bitVars, trieVars, transVars, searchVars>>

\* build_articles: the files of the chunks
WriteChunks ==
    /\ build.pc = "articles"
    /\ build' = [build EXCEPT !.pc = "exit",
                              !.files = ChunkFiles(build.keys)]
    /\ UNCHANGED <<overflow_checks, headerVars, bitVars, trieVars, transVars, searchVars>>

ChunksNext == NumberKeys \/ WriteChunks

SpecChunks == ChunksInit /\ [][ChunksNext]_vars

\* the four lower-case hex digits of v
Hex4(v) ==
    << HexChars[((v \div 4096) % 16) + 1], HexChars[((v \div 256) % 16) + 1],
       HexChars[((v \div 16) % 16) + 1], HexChars[(v % 16) + 1] >>

\* the files hold the article of rank i as item i mod 128 of the file named
\* after i - (i mod 128)
Located(files, i) ==
    \E c \in 1..Len(files) :
        /\ files[c].name
               = <<"article-">> \o Hex4(i - (i % ARTICLES_PER_FILE)) \o <<".bin">>
        /\ files[c].first + (i % ARTICLES_PER_FILE) = i
        /\ (i % ARTICLES_PER_FILE) < files[c].count
        /\ \A d \in 1..Len(files) :
               (d # c) => ~(files[d].first <= i
                               /\ i < files[d].first + files[d].count)

(***************************************************************************)
(* C21  Article location: for every key of rank i in the sorted key order, *)
(* the 16-bit article index passed for the trie variants of the key's      *)
(* entries is i, and the article of the key is item i mod 128, from 0, of  *)
(* the file article-XXXX.bin, XXXX the four lower-case hex digits of       *)
(* i - (i mod 128); every article is in exactly one file and every file    *)
(* but the last holds exactly 128 articles.                                *)
(***************************************************************************)
C21_ArticleLocation ==
    /\ build.pc # "trie" =>
           \A i \in 0..(build.keys - 1) : build.article_nums[i + 1] = i
    /\ build.pc = "exit" =>
           /\ \A i \in 0..(build.keys - 1) : Located(build.files, i)
           /\ \A c \in 1..(Len(build.files) - 1) :
                  build.files[c].count = ARTICLES_PER_FILE

(***************************************************************************)
(* The bytes of the articles (compiledb.rs write_article).  A string is    *)
(* the sequence of its characters; its len() is the length of its UTF-8    *)
(* encoding.                                                               *)
(***************************************************************************)
\* the most articles written to a file
MaxArticles == 2

\* str::as_bytes
RECURSIVE as_bytes(_)
as_bytes(s) ==
    IF s = <<>> THEN <<>>
    ELSE IF Len(s) = 1 THEN encode_utf8(s[1])
    ELSE as_bytes(SubSeq(s, 1, Len(s) \div 2))
             \o as_bytes(SubSeq(s, (Len(s) \div 2) + 1, Len(s)))

\* 'I', 'R', U+00C6, U+018F, U+2C6D to U+0259, "(r)", U+00E6, U+0259, U+0251
IPA_REMAP ==
    { <<73, <<601>>>>, <<82, <<40, 114, 41>>>>, <<198, <<230>>>>,
      <<399, <<601>>>>, <<11373, <<593>>>> }

RECURSIVE remap_ipa(_)
remap_ipa(ipa) ==
    IF ipa = <<>> THEN <<>>
    ELSE (IF \E m \in IPA_REMAP : m[1] = Head(ipa)
          THEN (CHOOSE m \in IPA_REMAP : m[1] = Head(ipa))[2]
          ELSE <<Head(ipa)>>)
         \o remap_ipa(Tail(ipa))

\* write_string: s.len() as u8, then the bytes
write_string(s) == <<Len(as_bytes(s)) % 256>> \o as_bytes(s)

\* the ArticleVariant of an entry (lines 299-303)
ArticleVariant(entry) ==
    [shavian |-> entry.shavian, ipa |-> remap_ipa(entry.ipa),
     var |-> lookup_var(entry.var).value]

\* the loop of combine_variants over the filtered entries, from item i
RECURSIVE CombineFrom(_, _, _)
CombineFrom(filtered, i, entries) ==
    IF i > Len(filtered) THEN entries
    ELSE IF entries # <<>>
            /\ entries[Len(entries)].latin = filtered[i].latin
            /\ entries[Len(entries)].pos = filtered[i].pos
    THEN CombineFrom(filtered, i + 1,
             [entries EXCEPT ![Len(entries)].variants =
                                 Append(@, ArticleVariant(filtered[i]))])
    ELSE CombineFrom(filtered, i + 1,
             Append(entries, [latin |-> filtered[i].latin,
                              pos |-> filtered[i].pos,
                              variants |-> <<ArticleVariant(filtered[i])>>]))

\* the entries combine_variants returns for an article it accepts
CombinedEntries(article) == CombineFrom(filter_entries(article).entries, 1, <<>>)

\* lines 337-339
RECURSIVE VariantsLen(_)
VariantsLen(variants) ==
    IF variants = <<>> THEN 0
    ELSE 1 + 1 + Len(as_bytes(Head(variants).shavian))
           + 1 + Len(as_bytes(Head(variants).ipa))
           + VariantsLen(Tail(variants))

\* lines 332-340
RECURSIVE ArticleLen(_)
ArticleLen(entries) ==
    IF entries = <<>> THEN 0
    ELSE 1 + Len(as_bytes(Head(entries).latin))
           + 1 + Len(Head(entries).pos)
           + 1 + VariantsLen(Head(entries).variants)
           + ArticleLen(Tail(entries))

\* lines 350-354
RECURSIVE WriteVariants(_)
WriteVariants(variants) ==
    IF variants = <<>> THEN <<>>
    ELSE <<Head(variants).var>> \o write_string(Head(variants).shavian)
             \o write_string(Head(variants).ipa)
             \o WriteVariants(Tail(variants))

\* lines 344-355
RECURSIVE WriteEntries(_)
WriteEntries(entries) ==
    IF entries = <<>> THEN <<>>
    ELSE write_string(Head(entries).latin)
             \o <<Len(Head(entries).pos) % 256>> \o Head(entries).pos
             \o <<Len(Head(entries).variants) % 256>>
             \o WriteVariants(Head(entries).variants)
             \o WriteEntries(Tail(entries))

\* (article_len as u16).to_le_bytes()
U16ToLeBytes(n) == <<(n % (2 ^ 16)) % 256, (n % (2 ^ 16)) \div 256>>

\* write_article: the bytes written for an article combine_variants accepts
ArticleBytes(entries) == U16ToLeBytes(ArticleLen(entries)) \o WriteEntries(entries)

write_article(article) == ArticleBytes(CombinedEntries(article))

\* a Latin form of 256 bytes
LongLatin == [i \in 1..256 |-> 97]

\* the entries of the inputs: "a", "A" or the long form; a noun, or a noun
\* and verb; no IPA, "I" or "aR"; of RRP or GenAm
ArticleEntries ==
    { [latin |-> l, shavian |-> <<66664>>, pos |-> ps, ipa |-> ipa, var |-> v] :
          l \in { <<97>>, <<65>>, LongLatin },
          ps \in { <<"NN1">>, <<"NN1", "VBB">> },
          ipa \in { <<>>, <<73>>, <<97, 82>> },
          v \in { "RRP", "GenAm" } }

\* the articles: an entry, or the entry "a" of RRP and another
ArticleInputs ==
    { <<e>> : e \in ArticleEntries }
        \cup { <<[latin |-> <<97>>, shavian |-> <<66664>>, pos |-> <<"NN1">>,
                  ipa |-> <<>>, var |-> "RRP"], e>> : e \in ArticleEntries }

FramingInit ==
    /\ overflow_checks = TRUE
    /\ HeaderIdle
    /\ BitIdle
    /\ TrieIdle
    /\ SearchIdle
    /\ TransIdle
    /\ build = [pc |-> "file", articles |-> <<>>, output |-> <<>>]

\* write_article(&map[key], &mut writer) on the file of a chunk
WriteArticle(article) ==
    /\ build.pc = "file"
    /\ Len(build.articles) < MaxArticles
    /\ build' = [build EXCEPT !.articles = Append(@, article),
                              !.output = @ \o write_article(article)]
    /\ UNCHANGED <<overflow_checks, headerVars, bitVars, trieVars, transVars, searchVars>>

FramingNext == \E article \in ArticleInputs : WriteArticle(article)

SpecFraming == FramingInit /\ [][FramingNext]_vars

\* a reader of the file that steps by the lengths written: a string at
\* offset p, [ok, value, next]
Unread == [ok |-> FALSE, value |-> <<>>, next |-> 0]

StepString(b, p) ==
    IF p >= Len(b) \/ p + 1 + b[p + 1] > Len(b) THEN Unread
    ELSE [ok |-> TRUE, value |-> SubSeq(b, p + 2, p + 1 + b[p + 1]),
          next |-> p + 1 + b[p + 1]]

\* count variants from offset p
RECURSIVE StepVariants(_, _, _, _)
StepVariantIpa(b, count, acc, var, shavian, ipa) ==
    IF ~ipa.ok THEN Unread
    ELSE StepVariants(b, ipa.next, count - 1,
             Append(acc, [var |-> var, shavian |-> shavian.value,
                          ipa |-> ipa.value]))

StepVariantShavian(b, count, acc, var, shavian) ==
    IF ~shavian.ok THEN Unread
    ELSE StepVariantIpa(b, count, acc, var, shavian, StepString(b, shavian.next))

StepVariants(b, p, count, acc) ==
    IF count = 0 THEN [ok |-> TRUE, value |-> acc, next |-> p]
    ELSE IF p >= Len(b) THEN Unread
    ELSE StepVariantShavian(b, count, acc, b[p + 1], StepString(b, p + 1))

\* the entries from offset p to offset end
RECURSIVE StepEntries(_, _, _, _)
StepEntryVariants(b, end, acc, latin, pos, variants) ==
    IF ~variants.ok THEN Unread
    ELSE StepEntries(b, variants.next, end,
             Append(acc, [latin |-> latin.value, pos |-> pos.value,
                          variants |-> variants.value]))

StepEntryPos(b, end, acc, latin, pos) ==
    IF ~pos.ok \/ pos.next >= Len(b) THEN Unread
    ELSE StepEntryVariants(b, end, acc, latin, pos,
             StepVariants(b, pos.next + 1, b[pos.next + 1], <<>>))

StepEntryLatin(b, end, acc, latin) ==
    IF ~latin.ok THEN Unread
    ELSE StepEntryPos(b, end, acc, latin, StepString(b, latin.next))

StepEntries(b, p, end, acc) ==
    IF p = end THEN [ok |-> TRUE, value |-> acc, next |-> p]
    ELSE IF p > end THEN Unread
    ELSE StepEntryLatin(b, end, acc, StepString(b, p))

\* the articles from offset p to the end of the file
RECURSIVE StepArticles(_, _, _)
StepArticleEntries(b, acc, entries) ==
    IF ~entries.ok THEN Unread
    ELSE StepArticles(b, entries.next, Append(acc, entries.value))

StepArticles(b, p, acc) ==
    IF p = Len(b) THEN [ok |-> TRUE, value |-> acc, next |-> p]
    ELSE IF p + 2 > Len(b) \/ p + 2 + b[p + 1] + 256 * b[p + 2] > Len(b)
    THEN Unread
    ELSE StepArticleEntries(b, acc,
             StepEntries(b, p + 2, p + 2 + b[p + 1] + 256 * b[p + 2], <<>>))

\* the entries of an article as the bytes of their strings
VariantData(variants) ==
    [k \in 1..Len(variants) |->
        [var |-> variants[k].var, shavian |-> as_bytes(variants[k].shavian),
         ipa |-> as_bytes(variants[k].ipa)]]

EntryData(entries) ==
    [k \in 1..Len(entries) |->
        [latin |-> as_bytes(entries[k].latin), pos |-> entries[k].pos,
         variants |-> VariantData(entries[k].variants)]]

(***************************************************************************)
(* C22  Article framing: for every article written, the two-byte           *)
(* little-endian length is the number of bytes of the article after it,    *)
(* and every one-byte length or count (Latin form, POS count, variant      *)
(* count, Shavian form, IPA form) is the length of the data after it, so   *)
(* that a reader steps from each article of a file to the next.            *)
(***************************************************************************)
C22_ArticleFraming ==
    /\ StepArticles(build.output, 0, <<>>).ok
    /\ StepArticles(build.output, 0, <<>>).value
           = [k \in 1..Len(build.articles) |->
                 EntryData(CombinedEntries(build.articles[k]))]
====
